---- MODULE Spec2Model ----
(***************************************************************************)
(* Model of yfitsio.c, the Yorick interface to the CFITSIO library.        *)
(*                                                                         *)
(* A FITS handle is a Yorick object holding one pointer, obj->fptr, to a   *)
(* CFITSIO file; the pointer is NULL once the handle has been closed.      *)
(* Each built-in function Y_fitsio_xxx is one action.  The CFITSIO calls   *)
(* the built-ins make (fits_movabs_hdu, fits_delete_hdu, ...) are modelled *)
(* by operators named after the library routine (ffmahd, ffdhdu, ...),     *)
(* following the CFITSIO reference guide and the status codes of fitsio.h. *)
(***************************************************************************)
EXTENDS Integers, Sequences, FiniteSets, TLC

(* ------------------------------------------------------------------ *)
(* Bounds of the model.                                                *)
(* ------------------------------------------------------------------ *)
\* Largest number of HDUs a file of the model holds.
MaxHdus == 3
\* Largest number of HDUs the file of handle 2 grows to by copy_hdu.
MaxOut == 2
MaxTok == 4
MaxComm == 5
\* Largest coordinate of the vectors given to the image built-ins.
MaxCoord == 2
\* Width of a C long in the model (64 in the build).
LongBits == 8
\* Largest number of columns of a table.
MaxCols == 3

(* ------------------------------------------------------------------ *)
(* Program constants.                                                  *)
(* ------------------------------------------------------------------ *)
MAY_BE_CLOSED == 0
NOT_CLOSED == 1
CRITICAL == 2

TRUE_INT == 1
FALSE_INT == 0

\* HDU types (DEFINE_INT_CONST in Y_fitsio_setup).
IMAGE_HDU == 0
ASCII_TBL == 1
BINARY_TBL == 2
ANY_HDU == 0 - 1

\* CFITSIO status codes.
SAME_FILE == 101
END_OF_FILE == 107
FILE_NOT_CLOSED == 110
KEY_NO_EXIST == 202
COL_NOT_FOUND == 219
COL_NOT_UNIQUE == 237
VALUE_UNDEFINED == 204
BAD_HDU_NUM == 301

NULL == "NULL"

\* The model has two handles, each on its own file.  Handle 1 is driven
\* through every built-in; handle 2 is the other file of copy_hdu, which is
\* queried and closed but not navigated.
Handles == {1, 2}
NavHandles == {1}

(* ------------------------------------------------------------------ *)
(* Values pushed on the Yorick stack and errors raised.                *)
(* ------------------------------------------------------------------ *)
NoErr == [kind |-> "none", msg |-> "", status |-> 0]
\* y_error(msg)
YError(msg) == [kind |-> "y_error", msg |-> msg, status |-> 0]
\* yfits_error(status): y_error with the library's text for the status
FitsError(status) == [kind |-> "yfits_error", msg |-> "", status |-> status]

NoRet == [t |-> "none", v |-> 0]

\* No table column nor typed image is attached to the current HDU.
NoData == [kind |-> "none"]

\* No array has been read.
NoRead == [eltype |-> "none", number |-> 0, anynull |-> FALSE]
Nil == [t |-> "nil", v |-> 0]
IntVal(i) == [t |-> "int", v |-> i]

ClosedMsg == "FITS file has been closed"

(* ------------------------------------------------------------------ *)
(* Files.                                                              *)
(* ------------------------------------------------------------------ *)
\* The primary HDU is an image without EXTNAME.
PrimaryHdu == [type |-> IMAGE_HDU, name |-> "", ver |-> 1]
ExtHdus ==
  { [type |-> IMAGE_HDU,  name |-> "SCI", ver |-> 1],
    [type |-> BINARY_TBL, name |-> "EVT", ver |-> 2] }

RECURSIVE SeqsUpTo(_, _)
SeqsUpTo(S, n) ==
  IF n = 0 THEN { <<>> }
  ELSE LET shorter == SeqsUpTo(S, n - 1)
       IN  shorter \cup { Append(s, x) : s \in { t \in shorter : Len(t) = n - 1 }, x \in S }

\* Files an open_file can return a handle on: a primary HDU, then extensions.
Files == { <<PrimaryHdu>> \o s : s \in SeqsUpTo(ExtHdus, MaxHdus - 1) }

Max(a, b) == IF a >= b THEN a ELSE b
Min(a, b) == IF a <= b THEN a ELSE b

RemoveAt(s, i) == [ k \in 1..(Len(s) - 1) |-> IF k < i THEN s[k] ELSE s[k + 1] ]

VARIABLES
  fptr,      \* fptr[h]: obj->fptr of handle h, NULL once closed
  hdus,      \* hdus[h]: the HDUs of the file of handle h (library state)
  curhdu,    \* curhdu[h]: number of the current HDU, 1-based (library state)
  maxhdu,    \* maxhdu[h]: highest HDU number the library has located so far
  nrelease,  \* nrelease[h]: how many times the library released the file
  freed,     \* freed[h]: the Yorick object has been finalized (yfits_free ran)
  call,      \* the last built-in called, with its arguments
  ret,       \* the value it pushed
  err,       \* the error it raised
  reached,   \* whether it called the library on the handle's file
  libstatus, \* the status the library left (0 when it was not called)
  reported,  \* whether it printed a library error report on stderr
  pre,       \* the file and position of the called handle before the call
  header,    \* the cards of the current HDU of handle 1
  comm,      \* the comment the last read_key stored in its variable
  tok,       \* the value text of the card given to get_value
  ctext,     \* the comment text of the card given to get_comment
  unit,      \* the unit the last get_comment stored in its variable
  img,       \* the axis lengths of the image of the current HDU
  cols,      \* the names of the columns of the table of the current HDU
  data,      \* the column or the pixel type of the data of the current HDU
  nullv,     \* the null value the last read stored in its variable
  rd         \* the element type and count of the array the last read got

vars == <<fptr, hdus, curhdu, maxhdu, nrelease, freed, call, ret, err, reached, libstatus, reported, pre,
          header, comm, tok, ctext, unit, img, cols, data, nullv, rd>>

nav == <<hdus, curhdu, maxhdu>>

Call(op, h, arg, sub) == [op |-> op, h |-> h, arg |-> arg, sub |-> sub]

(* ------------------------------------------------------------------ *)
(* yfits_fetch: the handle check every built-in starts with.           *)
(* ------------------------------------------------------------------ *)
\* Variant: the NOT_CLOSED flag is tested against the wrong mask (CRITICAL).
yfits_fetch_WrongMask(h, flags) ==
  IF (flags \div 2) = 0 /\ fptr[h] = NULL
  THEN YError(ClosedMsg)
  ELSE NoErr

yfits_fetch(h, flags) ==
  IF (flags % 2) = NOT_CLOSED /\ fptr[h] = NULL
  THEN YError(ClosedMsg)
  ELSE NoErr

(* ------------------------------------------------------------------ *)
(* CFITSIO routines the navigation built-ins call.  Each returns the   *)
(* status and the new library state of one file.                       *)
(* ------------------------------------------------------------------ *)
LibState(status, f, cur, mx, type) ==
  [status |-> status, hdus |-> f, cur |-> cur, max |-> mx, type |-> type]

\* fits_movabs_hdu (ffmahd).  A number below 1 is BAD_HDU_NUM.  The library
\* locates HDUs lazily: to reach HDU n it walks from the highest HDU it has
\* located so far, and a walk that runs off the end of the file stops with
\* END_OF_FILE on the last HDU it could reach.
ffmahd(f, cur, mx, n) ==
  IF n < 1 THEN LibState(BAD_HDU_NUM, f, cur, mx, 0)
  ELSE IF n <= Len(f) THEN LibState(0, f, n, Max(mx, n), f[n].type)
  ELSE LibState(END_OF_FILE, f, IF mx < Len(f) THEN Len(f) ELSE cur, Len(f), 0)

\* fits_movrel_hdu (ffmrhd): ffmahd to the current number plus the offset.
ffmrhd(f, cur, mx, offset) == ffmahd(f, cur, mx, cur + offset)

\* fits_get_num_hdus (ffthdu): walks to the end of the file, then moves back.
ffthdu(f, cur, mx) ==
  IF f = <<>> THEN LibState(0, f, cur, mx, cur - 1)
  ELSE LibState(0, f, cur, Len(f), Len(f))

\* Case-insensitive comparison of extension names (ffcmps with CASEINSEN).
UpperCase(name) ==
  CASE name = "sci" -> "SCI"
    [] name = "evt" -> "EVT"
    [] OTHER -> name

HduMatches(hdu, exttype, extname, extver) ==
  /\ (exttype = ANY_HDU \/ hdu.type = exttype)
  /\ hdu.name # ""
  /\ UpperCase(hdu.name) = UpperCase(extname)
  /\ (extver = 0 \/ hdu.ver = extver)

\* fits_movnam_hdu (ffmnhd): visits the HDUs from the first one and stops on
\* the first match; without a match it moves back to the starting HDU and
\* reports BAD_HDU_NUM.
ffmnhd(f, cur, mx, exttype, extname, extver) ==
  LET found == { i \in 1..Len(f) : HduMatches(f[i], exttype, extname, extver) }
  IN  IF found = {} THEN LibState(BAD_HDU_NUM, f, cur, Len(f), 0)
      ELSE LET i == CHOOSE k \in found : \A j \in found : k <= j
           IN  LibState(0, f, i, Max(mx, i), f[i].type)

\* fits_delete_hdu (ffdhdu).  The primary array is replaced by an empty
\* primary array.  Any other HDU is removed, the following HDUs move up, and
\* the current HDU becomes the one that followed or, when none followed, the
\* previous one.  The type returned is the type of the new current HDU.
ffdhdu(f, cur, mx) ==
  IF cur = 1
  THEN LibState(0, [f EXCEPT ![1] = PrimaryHdu], 1, mx, IMAGE_HDU)
  ELSE LET g == RemoveAt(f, cur)
           c == IF cur <= Len(g) THEN cur ELSE cur - 1
       IN  LibState(0, g, c, Max(mx - 1, c), g[c].type)

\* fits_copy_hdu (ffcopy) as seen by the output file: the HDU is appended
\* after the last HDU of the output file and becomes its current HDU.
ffcopy(out, hdu) ==
  LibState(0, Append(out, hdu), Len(out) + 1, Len(out) + 1, hdu.type)

\* fits_close_file / fits_delete_file may fail (status # 0); either way the
\* call is one release of the file.
CloseStatuses == {0, FILE_NOT_CLOSED}

(* ------------------------------------------------------------------ *)
(* What a built-in does, as a record: the error raised, the value      *)
(* pushed, whether the library was called on the file, and the new     *)
(* library state of the file.                                          *)
(* ------------------------------------------------------------------ *)
Outcome(e, r, rch, lib) == [err |-> e, ret |-> r, reached |-> rch, lib |-> lib]

\* The library state of the file of handle h, untouched.
Same(h) == LibState(0, hdus[h], curhdu[h], maxhdu[h], 0)

\* Raise error e before any library call.
Reject(h, e) == Outcome(e, NoRet, FALSE, Same(h))

\* End of the three move built-ins: BAD_HDU_NUM is returned as type -1 when
\* the built-in is called as a function, any other failure is an error.
MoveResult(lib, sub) ==
  IF lib.status # 0
  THEN IF lib.status # BAD_HDU_NUM \/ sub
       THEN Outcome(FitsError(lib.status), NoRet, TRUE, lib)
       ELSE Outcome(NoErr, IntVal(0 - 1), TRUE, lib)
  ELSE Outcome(NoErr, IntVal(lib.type), TRUE, lib)

movabs_hdu(h, number, sub) ==
  LET closed == yfits_fetch(h, NOT_CLOSED + CRITICAL)
  IN  IF closed # NoErr THEN Reject(h, closed)
      ELSE IF number <= 0 THEN Reject(h, YError("invalid HDU number"))
      ELSE MoveResult(ffmahd(hdus[h], curhdu[h], maxhdu[h], number), sub)

movrel_hdu(h, offset, sub) ==
  LET closed == yfits_fetch(h, NOT_CLOSED + CRITICAL)
  IN  IF closed # NoErr THEN Reject(h, closed)
      ELSE MoveResult(ffmrhd(hdus[h], curhdu[h], maxhdu[h], offset), sub)

\* On success the type pushed is read back with fits_get_hdu_type.
movnam_hdu(h, type, extname, extver, sub) ==
  LET closed == yfits_fetch(h, NOT_CLOSED + CRITICAL)
  IN  IF closed # NoErr THEN Reject(h, closed)
      ELSE IF type # IMAGE_HDU /\ type # BINARY_TBL /\ type # ASCII_TBL /\ type # ANY_HDU
      THEN Reject(h, YError("bad HDUTYPE"))
      ELSE MoveResult(ffmnhd(hdus[h], curhdu[h], maxhdu[h], type, extname, extver), sub)

get_num_hdus(h) ==
  LET closed == yfits_fetch(h, MAY_BE_CLOSED + CRITICAL)
  IN  IF closed # NoErr THEN Reject(h, closed)
      ELSE IF fptr[h] = NULL THEN Outcome(NoErr, IntVal(0), FALSE, Same(h))
      ELSE LET lib == ffthdu(hdus[h], curhdu[h], maxhdu[h])
           IN  Outcome(NoErr, IntVal(lib.type), TRUE, lib)

\* Variant: the HDU number is pushed counted from zero.
get_hdu_num_ZeroBased(h) ==
  LET closed == yfits_fetch(h, MAY_BE_CLOSED + CRITICAL)
  IN  IF closed # NoErr THEN Reject(h, closed)
      ELSE IF fptr[h] = NULL THEN Outcome(NoErr, IntVal(0), FALSE, Same(h))
      ELSE Outcome(NoErr, IntVal(curhdu[h] - 1), TRUE, Same(h))

get_hdu_num(h) ==
  LET closed == yfits_fetch(h, MAY_BE_CLOSED + CRITICAL)
  IN  IF closed # NoErr THEN Reject(h, closed)
      ELSE IF fptr[h] = NULL THEN Outcome(NoErr, IntVal(0), FALSE, Same(h))
      ELSE Outcome(NoErr, IntVal(curhdu[h]), TRUE, Same(h))

get_hdu_type(h) ==
  LET closed == yfits_fetch(h, NOT_CLOSED + CRITICAL)
  IN  IF closed # NoErr THEN Reject(h, closed)
      ELSE Outcome(NoErr, IntVal(hdus[h][curhdu[h]].type), TRUE, Same(h))

is_open(h) ==
  LET closed == yfits_fetch(h, MAY_BE_CLOSED)
  IN  IF closed # NoErr THEN Reject(h, closed)
      ELSE Outcome(NoErr, IntVal(IF fptr[h] # NULL THEN TRUE_INT ELSE FALSE_INT),
                   FALSE, Same(h))

\* Variant: the status is pushed in place of the type.
delete_hdu_PushesStatus(h) ==
  LET closed == yfits_fetch(h, NOT_CLOSED + CRITICAL)
  IN  IF closed # NoErr THEN Reject(h, closed)
      ELSE LET lib == ffdhdu(hdus[h], curhdu[h], maxhdu[h])
           IN  IF lib.status # 0 THEN Outcome(FitsError(lib.status), NoRet, TRUE, lib)
               ELSE Outcome(NoErr, IntVal(lib.status), TRUE, lib)

delete_hdu(h) ==
  LET closed == yfits_fetch(h, NOT_CLOSED + CRITICAL)
  IN  IF closed # NoErr THEN Reject(h, closed)
      ELSE LET lib == ffdhdu(hdus[h], curhdu[h], maxhdu[h])
           IN  IF lib.status # 0 THEN Outcome(FitsError(lib.status), NoRet, TRUE, lib)
               ELSE Outcome(NoErr, IntVal(lib.type), TRUE, lib)

\* fits_copy_hdu(inp, out): both handles must be open; copying a file onto
\* itself is SAME_FILE.  The outcome carries the library state of out.
copy_hdu(inp, out) ==
  LET closed == yfits_fetch(inp, NOT_CLOSED + CRITICAL)
      closed2 == yfits_fetch(out, NOT_CLOSED)
  IN  IF closed # NoErr THEN Reject(out, closed)
      ELSE IF closed2 # NoErr THEN Reject(out, closed2)
      ELSE IF inp = out
      THEN Outcome(FitsError(SAME_FILE), NoRet, TRUE,
                   LibState(SAME_FILE, hdus[out], curhdu[out], maxhdu[out], 0))
      ELSE Outcome(NoErr, NoRet, TRUE, ffcopy(hdus[out], hdus[inp][curhdu[inp]]))

(* ------------------------------------------------------------------ *)
(* The other built-ins that take a handle, with the flags they pass    *)
(* to yfits_fetch.  Their work on an open file is not modelled here.   *)
(* ------------------------------------------------------------------ *)
FetchFlags ==
  [ file_name     |-> MAY_BE_CLOSED + CRITICAL,
    file_mode     |-> MAY_BE_CLOSED + CRITICAL,
    url_type      |-> MAY_BE_CLOSED + CRITICAL,
    read_key      |-> NOT_CLOSED + CRITICAL,
    write_key     |-> NOT_CLOSED + CRITICAL,
    read_img      |-> NOT_CLOSED + CRITICAL,
    write_col     |-> NOT_CLOSED + CRITICAL,
    verify_chksum |-> NOT_CLOSED + CRITICAL ]

OtherOps == DOMAIN FetchFlags

SomeValue == [t |-> "value", v |-> 0]

other_op(h, op) ==
  LET closed == yfits_fetch(h, FetchFlags[op])
  IN  IF closed # NoErr THEN Reject(h, closed)
      ELSE IF fptr[h] = NULL THEN Outcome(NoErr, Nil, FALSE, Same(h))
      ELSE Outcome(NoErr, SomeValue, TRUE, Same(h))

(* ------------------------------------------------------------------ *)
(* Releasing the file.  st is the status of the library's release.     *)
(* ------------------------------------------------------------------ *)
Release(fp, n, st, e, rep) ==
  [fptr |-> fp, released |-> n, status |-> st, err |-> e, reported |-> rep, reached |-> n > 0]

\* Variant: fptr is set to NULL after the library call, which a failure
\* (raised by a non-local jump) skips.
close_file_NullAfterClose(h, st) ==
  IF fptr[h] # NULL
  THEN Release(IF st # 0 THEN fptr[h] ELSE NULL, 1, st,
               IF st # 0 THEN FitsError(st) ELSE NoErr, FALSE)
  ELSE Release(fptr[h], 0, 0, NoErr, FALSE)

\* Y_fitsio_close_file: a closed handle is left alone; otherwise fptr is set
\* to NULL, then the file is closed and a failure is raised.
close_file(h, st) ==
  IF fptr[h] # NULL
  THEN Release(NULL, 1, st, IF st # 0 THEN FitsError(st) ELSE NoErr, FALSE)
  ELSE Release(fptr[h], 0, 0, NoErr, FALSE)

\* Variant: the handle keeps its pointer to the deleted file.
delete_file_KeepsPointer(h, st) ==
  LET closed == yfits_fetch(h, NOT_CLOSED + CRITICAL)
  IN  IF closed # NoErr THEN Release(fptr[h], 0, 0, closed, FALSE)
      ELSE Release(fptr[h], 1, st, IF st # 0 THEN FitsError(st) ELSE NoErr, FALSE)

\* Y_fitsio_delete_file: as close_file, but a closed handle is an error.
delete_file(h, st) ==
  LET closed == yfits_fetch(h, NOT_CLOSED + CRITICAL)
  IN  IF closed # NoErr THEN Release(fptr[h], 0, 0, closed, FALSE)
      ELSE IF fptr[h] # NULL
      THEN Release(NULL, 1, st, IF st # 0 THEN FitsError(st) ELSE NoErr, FALSE)
      ELSE Release(fptr[h], 0, 0, NoErr, FALSE)

\* Variant: the finalizer raises the failure as close_file does.
yfits_free_Raises(h, st) ==
  IF fptr[h] # NULL
  THEN Release(NULL, 1, st, IF st # 0 THEN FitsError(st) ELSE NoErr, FALSE)
  ELSE Release(fptr[h], 0, 0, NoErr, FALSE)

\* yfits_free, the finalizer of the object: a failure is printed, not raised.
yfits_free(h, st) ==
  IF fptr[h] # NULL
  THEN Release(NULL, 1, st, NoErr, st # 0)
  ELSE Release(fptr[h], 0, 0, NoErr, FALSE)

(* ================================================================== *)
(* Keyword cards.                                                      *)
(* A C string is a sequence of one-character strings; the null         *)
(* pointer is NullString.  A real number is a decimal m * 10^e with m  *)
(* not a multiple of 10.                                               *)
(* ================================================================== *)
NullString == <<NULL>>

StrVal(s) == [t |-> "string", v |-> s]
LongVal(l) == [t |-> "long", v |-> l]
DoubleVal(d) == [t |-> "double", v |-> d]
ComplexVal(re, im) == [t |-> "complex", v |-> <<re, im>>]

IS_SPACE(c) == c = " "

DigitSeq == <<"0", "1", "2", "3", "4", "5", "6", "7", "8", "9">>
Digits == { DigitSeq[i] : i \in 1..10 }
DigitVal(c) == (CHOOSE i \in 1..10 : DigitSeq[i] = c) - 1

RECURSIVE Pow10(_)
Pow10(n) == IF n <= 0 THEN 1 ELSE 10 * Pow10(n - 1)

Abs(n) == IF n < 0 THEN 0 - n ELSE n

RECURSIVE Dec(_, _)
Dec(m, e) ==
  IF m = 0 THEN [m |-> 0, e |-> 0]
  ELSE IF m % 10 = 0 THEN Dec(m \div 10, e + 1)
  ELSE [m |-> m, e |-> e]

\* Decimal digits of n >= 0.
RECURSIVE NatToChars(_)
NatToChars(n) ==
  IF n < 10 THEN <<DigitSeq[n + 1]>>
  ELSE NatToChars(n \div 10) \o <<DigitSeq[(n % 10) + 1]>>

RECURSIVE Repeat(_, _)
Repeat(c, n) == IF n <= 0 THEN <<>> ELSE <<c>> \o Repeat(c, n - 1)

\* Index after the run of digits of s that starts at index i.
RECURSIVE DigitsEnd(_, _)
DigitsEnd(s, i) ==
  IF i <= Len(s) /\ s[i] \in Digits THEN DigitsEnd(s, i + 1) ELSE i

\* Value of the digits s[i..j-1].
RECURSIVE DigitsVal(_, _, _)
DigitsVal(s, i, j) ==
  IF j <= i THEN 0 ELSE DigitsVal(s, i, j - 1) * 10 + DigitVal(s[j - 1])

At(s, i) == IF i >= 1 /\ i <= Len(s) THEN s[i] ELSE "NUL"

\* strtol(s, &end, 10): end is the index of the first character not used
\* (Len(s) + 1 stands for the terminating null).
strtol(s) ==
  LET neg == At(s, 1) = "-"
      i1 == IF At(s, 1) \in {"+", "-"} THEN 2 ELSE 1
      i2 == DigitsEnd(s, i1)
      v == DigitsVal(s, i1, i2)
  IN  IF i2 = i1 THEN [val |-> 0, end |-> 1]
      ELSE [val |-> (IF neg THEN 0 - v ELSE v), end |-> i2]

\* strtod(s, &end) on decimal notation.
strtod_dec(s) ==
  LET neg == At(s, 1) = "-"
      i1 == IF At(s, 1) \in {"+", "-"} THEN 2 ELSE 1
      i2 == DigitsEnd(s, i1)
      dot == At(s, i2) = "."
      i3 == IF dot THEN DigitsEnd(s, i2 + 1) ELSE i2
      nfrac == IF dot THEN i3 - (i2 + 1) ELSE 0
      ndig == (i2 - i1) + nfrac
      mant == DigitsVal(s, i1, i2) * Pow10(nfrac)
              + (IF dot THEN DigitsVal(s, i2 + 1, i3) ELSE 0)
      j1 == i3 + 1
      eneg == At(s, j1) = "-"
      j2 == IF At(s, j1) \in {"+", "-"} THEN j1 + 1 ELSE j1
      j3 == DigitsEnd(s, j2)
      hasexp == At(s, i3) \in {"e", "E"} /\ j3 > j2
      ex == IF hasexp
            THEN (IF eneg THEN 0 - DigitsVal(s, j2, j3) ELSE DigitsVal(s, j2, j3))
            ELSE 0
  IN  IF ndig = 0 THEN [val |-> Dec(0, 0), end |-> 1]
      ELSE [val |-> Dec((IF neg THEN 0 - mant ELSE mant), ex - nfrac),
            end |-> IF hasexp THEN j3 ELSE i3]

\* Hexadecimal notation of strtod: 0x, hexadecimal digits with an optional
\* point, and an optional binary exponent p.
HexLower == <<"0", "1", "2", "3", "4", "5", "6", "7", "8", "9", "a", "b", "c", "d", "e", "f">>
HexUpper == <<"0", "1", "2", "3", "4", "5", "6", "7", "8", "9", "A", "B", "C", "D", "E", "F">>
HexDigits == { HexLower[i] : i \in 1..16 } \cup { HexUpper[i] : i \in 1..16 }
HexVal(c) == (CHOOSE i \in 1..16 : HexLower[i] = c \/ HexUpper[i] = c) - 1

RECURSIVE HexEnd(_, _)
HexEnd(s, i) ==
  IF i <= Len(s) /\ s[i] \in HexDigits THEN HexEnd(s, i + 1) ELSE i

RECURSIVE HexDigitsVal(_, _, _)
HexDigitsVal(s, i, j) ==
  IF j <= i THEN 0 ELSE HexDigitsVal(s, i, j - 1) * 16 + HexVal(s[j - 1])

RECURSIVE Pow(_, _)
Pow(b, n) == IF n <= 0 THEN 1 ELSE b * Pow(b, n - 1)

\* n * 2^b as a decimal.
Scale2(n, b) == IF b >= 0 THEN Dec(n * Pow(2, b), 0) ELSE Dec(n * Pow(5, 0 - b), b)

IsHexPrefix(s) ==
  LET i1 == IF At(s, 1) \in {"+", "-"} THEN 2 ELSE 1
  IN  At(s, i1) = "0" /\ At(s, i1 + 1) \in {"x", "X"}

\* the binary exponent, from index h3, of the hexadecimal digits worth n
strtod_hexexp(s, n, nfrac, h3) ==
  LET j1 == h3 + 1
      eneg == At(s, j1) = "-"
      j2 == IF At(s, j1) \in {"+", "-"} THEN j1 + 1 ELSE j1
      j3 == DigitsEnd(s, j2)
      hasexp == At(s, h3) \in {"p", "P"} /\ j3 > j2
      ex == IF hasexp
            THEN (IF eneg THEN 0 - DigitsVal(s, j2, j3) ELSE DigitsVal(s, j2, j3))
            ELSE 0
  IN  [val |-> Scale2(n, ex - 4 * nfrac), end |-> IF hasexp THEN j3 ELSE h3]

strtod_hex(s) ==
  LET neg == At(s, 1) = "-"
      h1 == IF At(s, 1) \in {"+", "-"} THEN 4 ELSE 3
      h2 == HexEnd(s, h1)
      dot == At(s, h2) = "."
      h3 == IF dot THEN HexEnd(s, h2 + 1) ELSE h2
      nfrac == IF dot THEN h3 - (h2 + 1) ELSE 0
      mant == HexDigitsVal(s, h1, h2) * Pow(16, nfrac)
              + (IF dot THEN HexDigitsVal(s, h2 + 1, h3) ELSE 0)
  IN  IF (h2 - h1) + nfrac = 0 THEN [val |-> Dec(0, 0), end |-> h1 - 1]
      ELSE strtod_hexexp(s, IF neg THEN 0 - mant ELSE mant, nfrac, h3)

\* strtod(s, &end)
strtod(s) == IF IsHexPrefix(s) THEN strtod_hex(s) ELSE strtod_dec(s)

\* trim_string: the loop over src, with dst, the length k up to the last
\* character that is not a space, and the flag copy.
RECURSIVE trim_loop(_, _, _, _, _)
trim_loop(src, i, dst, k, copy) ==
  IF i > Len(src) THEN SubSeq(dst, 1, k)
  ELSE IF IS_SPACE(src[i])
  THEN (IF copy THEN trim_loop(src, i + 1, Append(dst, src[i]), k, copy)
        ELSE trim_loop(src, i + 1, dst, k, copy))
  ELSE trim_loop(src, i + 1, Append(dst, src[i]), Len(dst) + 1, TRUE)

trim_string(src) == trim_loop(src, 1, <<>>, 0, FALSE)

\* Character codes of the values a Yorick char argument takes in the model.
Ord(c) ==
  CASE c = "T" -> 84
    [] c = "t" -> 116
    [] c = "F" -> 70
    [] c = "f" -> 102
    [] c = "x" -> 120

(* ------------------------------------------------------------------ *)
(* The library's conversions between values and the value field of a   *)
(* card.                                                               *)
(* ------------------------------------------------------------------ *)
\* TLOGICAL: the int pointed to is written as T when it is not zero.
ffl2c(ival) == IF ival # 0 THEN <<"T">> ELSE <<"F">>

\* TLONG
ffi2c(lval) == IF lval < 0 THEN <<"-">> \o NatToChars(0 - lval) ELSE NatToChars(lval)

\* TDOUBLE: "%.15G", with a decimal point added when there is none.
ffd2e(d) ==
  LET digs == NatToChars(Abs(d.m))
      n == Len(digs)
      x == n - 1 + d.e
      sign == IF d.m < 0 THEN <<"-">> ELSE <<>>
      xs == NatToChars(Abs(x))
  IN  IF d.m = 0 THEN <<"0", ".">>
      ELSE IF x < 0 - 4 \/ x >= 15
      THEN sign \o <<digs[1], ".">>
           \o (IF n > 1 THEN SubSeq(digs, 2, n) ELSE <<"0">>)
           \o <<"E", IF x < 0 THEN "-" ELSE "+">>
           \o (IF Len(xs) < 2 THEN <<"0">> \o xs ELSE xs)
      ELSE IF d.e >= 0 THEN sign \o digs \o Repeat("0", d.e) \o <<".">>
      ELSE IF n > 0 - d.e
      THEN sign \o SubSeq(digs, 1, n + d.e) \o <<".">> \o SubSeq(digs, n + d.e + 1, n)
      ELSE sign \o <<"0", ".">> \o Repeat("0", (0 - d.e) - n) \o digs

\* TDBLCOMPLEX
ffpkym(re, im) == <<"(">> \o ffd2e(re) \o <<",", " ">> \o ffd2e(im) \o <<")">>

\* TSTRING: quoted, quotes doubled, padded to 8 characters.
RECURSIVE DoubleQuotes(_)
DoubleQuotes(s) ==
  IF s = <<>> THEN <<>>
  ELSE (IF Head(s) = "'" THEN <<"'", "'">> ELSE <<Head(s)>>) \o DoubleQuotes(Tail(s))

ffs2c(s) ==
  LET body == DoubleQuotes(s)
  IN  <<"'">> \o body \o Repeat(" ", 8 - Len(body)) \o <<"'">>

\* ffc2s: the string inside the quotes, without its trailing spaces;
\* status 205 (NO_QUOTE) when the closing quote is missing.
RECURSIVE ffc2s_loop(_, _, _)
ffc2s_loop(instr, ii, out) ==
  IF ii > Len(instr) THEN [status |-> 205, out |-> out]
  ELSE IF instr[ii] = "'"
  THEN (IF At(instr, ii + 1) = "'" THEN ffc2s_loop(instr, ii + 2, Append(out, "'"))
        ELSE [status |-> 0, out |-> out])
  ELSE ffc2s_loop(instr, ii + 1, Append(out, instr[ii]))

RECURSIVE DropTrailingSpaces(_)
DropTrailingSpaces(s) ==
  IF s # <<>> /\ s[Len(s)] = " " THEN DropTrailingSpaces(SubSeq(s, 1, Len(s) - 1)) ELSE s

ffc2s(instr) ==
  IF At(instr, 1) # "'" THEN [status |-> 0, out |-> instr]
  ELSE LET r == ffc2s_loop(instr, 2, <<>>)
       IN  [status |-> r.status, out |-> DropTrailingSpaces(r.out)]

(* ------------------------------------------------------------------ *)
(* push_key_value: the value a card's value field decodes to.          *)
(* ------------------------------------------------------------------ *)
RECURSIVE SkipSpaces(_, _)
SkipSpaces(s, i) == IF i <= Len(s) /\ IS_SPACE(s[i]) THEN SkipSpaces(s, i + 1) ELSE i

\* One "%lf" of sscanf from index i of s.
scan_lf(s, i) ==
  LET j == SkipSpaces(s, i)
      r == strtod(SubSeq(s, j, Len(s)))
  IN  [ok |-> r.end > 1, val |-> r.val, next |-> j + r.end - 1]

\* sscanf(s, "%lf ,%lf )%1c", &re, &im, &dummy): the number of conversions,
\* directive by directive.
Scanned(n, re, im) == [n |-> n, re |-> re, im |-> im]

\* ")" and "%1c", from index p
sscanf_close(s, a, b, p) ==
  IF At(s, p) # ")" \/ p + 1 > Len(s) THEN Scanned(2, a.val, b.val)
  ELSE Scanned(3, a.val, b.val)

\* the white space after the second "%lf"
sscanf_second(s, a, b) ==
  IF ~b.ok THEN Scanned(1, a.val, a.val)
  ELSE sscanf_close(s, a, b, SkipSpaces(s, b.next))

\* "," and the second "%lf", from index c
sscanf_comma(s, a, c) ==
  IF At(s, c) # "," THEN Scanned(1, a.val, a.val)
  ELSE sscanf_second(s, a, scan_lf(s, c + 1))

\* the white space after the first "%lf"
sscanf_first(s, a) ==
  IF ~a.ok THEN Scanned(0, a.val, a.val)
  ELSE sscanf_comma(s, a, SkipSpaces(s, a.next))

sscanf_complex(s) == sscanf_first(s, scan_lf(s, 1))

KeyOutcome(e, r) == [err |-> e, ret |-> r]

InvalidValue == KeyOutcome(YError("invalid keyword value"), NoRet)

push_number(buffer) ==
  LET real == \E i \in 1..Len(buffer) : buffer[i] \in {".", "E", "e", "D", "d"}
      buf == [i \in 1..Len(buffer) |-> IF buffer[i] \in {"D", "d"} THEN "E" ELSE buffer[i]]
  IN  IF real
      THEN LET r == strtod(buf)
           IN  IF r.end = Len(buf) + 1 THEN KeyOutcome(NoErr, DoubleVal(r.val))
               ELSE InvalidValue
      ELSE LET r == strtol(buf)
           IN  IF r.end = Len(buf) + 1 THEN KeyOutcome(NoErr, LongVal(r.val))
               ELSE InvalidValue

push_scanned(z) ==
  IF z.n = 2 THEN KeyOutcome(NoErr, ComplexVal(z.re, z.im)) ELSE InvalidValue

push_key_value(value) ==
  IF value = NullString THEN KeyOutcome(NoErr, StrVal(NullString))
  ELSE
    LET buffer == trim_string(value)
        len == Len(buffer)
        c == At(buffer, 1)
    IN  IF len = 0 THEN KeyOutcome(NoErr, StrVal(NullString))
        ELSE IF c \in {"T", "t"}
        THEN (IF len # 1 THEN InvalidValue ELSE KeyOutcome(NoErr, IntVal(TRUE_INT)))
        ELSE IF c \in {"F", "f"}
        THEN (IF len # 1 THEN InvalidValue ELSE KeyOutcome(NoErr, IntVal(FALSE_INT)))
        ELSE IF c = "'"
        THEN (IF len < 2 \/ buffer[len] # "'" THEN InvalidValue
              ELSE LET r == ffc2s(buffer)
                   IN  IF r.status # 0 THEN KeyOutcome(FitsError(r.status), NoRet)
                       ELSE KeyOutcome(NoErr, StrVal(r.out)))
        ELSE IF c = "("
        THEN push_scanned(sscanf_complex(SubSeq(buffer, 2, len)))
        ELSE push_number(buffer)

(* ------------------------------------------------------------------ *)
(* parse_unit: the unit in brackets at the start of a comment.  The     *)
(* indexes i, j, k count from 0 as in the code.                        *)
(* ------------------------------------------------------------------ *)
CharAt(s, i) == At(s, i + 1)

\* do { c = comment[++i]; } while (IS_SPACE(c));
RECURSIVE NextNonSpace(_, _)
NextNonSpace(s, i) ==
  IF IS_SPACE(CharAt(s, i + 1)) THEN NextNonSpace(s, i + 1) ELSE i + 1

\* do { c = comment[--j]; } while (IS_SPACE(c));
RECURSIVE PrevNonSpace(_, _)
PrevNonSpace(s, j) ==
  IF IS_SPACE(CharAt(s, j - 1)) THEN PrevNonSpace(s, j - 1) ELSE j - 1

Parsed(i, j, k) == [i |-> i, j |-> j, k |-> k]

\* Variant: the spaces after the closing bracket are not skipped.
RECURSIVE unit_scan_NoSkip(_, _, _)
unit_scan_NoSkip(s, i, j) ==
  IF CharAt(s, j) = "NUL" THEN Parsed(i, 0 - 2, 0)
  ELSE IF CharAt(s, j) = "]" THEN Parsed(i, PrevNonSpace(s, j), j + 1)
  ELSE unit_scan_NoSkip(s, i, j + 1)

\* the loop for (;;) of parse_unit, c being comment[j]
RECURSIVE unit_scan(_, _, _)
unit_scan(s, i, j) ==
  IF CharAt(s, j) = "NUL" THEN Parsed(i, 0 - 2, 0)
  ELSE IF CharAt(s, j) = "]" THEN Parsed(i, PrevNonSpace(s, j), NextNonSpace(s, j))
  ELSE unit_scan(s, i, j + 1)

unit_open(s, i) == unit_scan(s, i, i)

unit_start(s, i) ==
  IF CharAt(s, i) = "[" THEN unit_open(s, NextNonSpace(s, i))
  ELSE Parsed(i, 0 - 2, 0)

parse_unit(comment) == unit_start(comment, NextNonSpace(comment, 0 - 1))

CommentOutcome(e, r, u) == [err |-> e, ret |-> r, unit |-> u]

\* the unit and the comment given back for the indexes p of parse_unit
split_comment(comment, p) ==
  CommentOutcome(NoErr,
                 StrVal(SubSeq(comment, p.k + 1, Len(comment))),
                 IF p.i >= 1 /\ p.j >= p.i
                 THEN StrVal(SubSeq(comment, p.i + 1, p.j + 1))
                 ELSE StrVal(NullString))

\* Y_fitsio_get_comment on a card given as [keyword, value, comment], with
\* (argc = 2) or without (argc = 1) a variable for the unit.
get_comment(card, argc) ==
  IF argc # 1 /\ argc # 2
  THEN CommentOutcome(YError("expecting 1 or 2 arguments"), NoRet, NoRet)
  ELSE IF card[3] = NullString
  THEN CommentOutcome(NoErr, StrVal(NullString),
                      IF argc < 2 THEN NoRet ELSE StrVal(NullString))
  ELSE IF argc < 2
  THEN CommentOutcome(NoErr, StrVal(card[3]), NoRet)
  ELSE split_comment(card[3], parse_unit(card[3]))

(* ------------------------------------------------------------------ *)
(* The header of the current HDU: a sequence of cards.                 *)
(* ------------------------------------------------------------------ *)
Card(key, value, comment) == [key |-> key, value |-> value, comment |-> comment]

\* Number of the first card of hd named key, 0 when there is none.
FindCard(hd, key) ==
  IF \E i \in 1..Len(hd) : hd[i].key = key
  THEN CHOOSE i \in 1..Len(hd) :
         hd[i].key = key /\ \A j \in 1..(i - 1) : hd[j].key # key
  ELSE 0

\* fits_write_key / fits_write_key_null: a new card at the end of the header.
ffpky(hd, key, value, comment) ==
  Append(hd, Card(key, value, IF comment = NullString THEN <<>> ELSE comment))

\* fits_update_key / fits_update_key_null: the card named key gets the new
\* value, and the new comment unless it is a null pointer; without such a
\* card, as fits_write_key.
ffuky(hd, key, value, comment) ==
  LET i == FindCard(hd, key)
  IN  IF i = 0 THEN ffpky(hd, key, value, comment)
      ELSE [hd EXCEPT ![i] = Card(key, value,
                                  IF comment = NullString THEN @.comment ELSE comment)]

\* An argument of a built-in: type identifier, rank, and the scalar it
\* holds (l: char or integer, d: real or real part, im: imaginary part,
\* s: string).
Arg(type, rank, l, d, im, s) ==
  [type |-> type, rank |-> rank, l |-> l, d |-> d, im |-> im, s |-> s]

CharArg(c) == Arg("Y_CHAR", 0, Ord(c), Dec(0, 0), Dec(0, 0), <<>>)
LongArg(l) == Arg("Y_LONG", 0, l, Dec(0, 0), Dec(0, 0), <<>>)
DoubleArg(d) == Arg("Y_DOUBLE", 0, 0, d, Dec(0, 0), <<>>)
ComplexArg(re, im) == Arg("Y_COMPLEX", 0, 0, re, im, <<>>)
StringArg(s) == Arg("Y_STRING", 0, 0, Dec(0, 0), Dec(0, 0), s)
VoidArg == Arg("Y_VOID", 0, 0, Dec(0, 0), Dec(0, 0), <<>>)

\* The type identifiers up to Y_LONG.
IntegerTypes == {"Y_CHAR", "Y_SHORT", "Y_INT", "Y_LONG"}

\* The library is reached when the arguments have been accepted.
WriteOutcome(e, r, hd) == [err |-> e, ret |-> r, header |-> hd, reached |-> e = NoErr]

\* write_key(argc, update): fitsio_write_key and fitsio_update_key.
write_key(h, argc, keyarg, valarg, commarg, update) ==
  LET closed == yfits_fetch(h, NOT_CLOSED + CRITICAL)
      badchar == /\ valarg.type = "Y_CHAR" /\ valarg.rank = 0
                 /\ valarg.l \notin {Ord("T"), Ord("t"), Ord("F"), Ord("f")}
      valok == valarg.type = "Y_VOID"
               \/ (valarg.rank = 0
                   /\ valarg.type \in IntegerTypes
                        \cup {"Y_FLOAT", "Y_DOUBLE", "Y_COMPLEX", "Y_STRING"})
      ival == IF valarg.l \in {Ord("T"), Ord("t")} THEN Ord("T") ELSE Ord("F")
      value == CASE valarg.type = "Y_VOID" -> <<>>
                 [] valarg.type = "Y_CHAR" -> ffl2c(ival)
                 [] valarg.type \in IntegerTypes \ {"Y_CHAR"} -> ffi2c(valarg.l)
                 [] valarg.type \in {"Y_FLOAT", "Y_DOUBLE"} -> ffd2e(valarg.d)
                 [] valarg.type = "Y_COMPLEX" -> ffpkym(valarg.d, valarg.im)
                 [] OTHER -> ffs2c(IF valarg.s = NullString THEN <<>> ELSE valarg.s)
      comment == IF argc > 4
                 THEN (IF commarg.s = NullString THEN <<>> ELSE commarg.s)
                 ELSE NullString
  IN  IF argc # 3 /\ argc # 4
      THEN WriteOutcome(YError("expecting 3 or 4 arguments"), NoRet, header)
      ELSE IF closed # NoErr THEN WriteOutcome(closed, NoRet, header)
      ELSE IF keyarg.type # "Y_STRING" \/ keyarg.rank # 0
      THEN WriteOutcome(YError("illegal keyword name"), NoRet, header)
      ELSE IF badchar
      THEN WriteOutcome(YError("logical value must be 'T' or 'F'"), NoRet, header)
      ELSE IF ~valok THEN WriteOutcome(YError("illegal keyword value"), NoRet, header)
      ELSE IF update THEN WriteOutcome(NoErr, Nil, ffuky(header, keyarg.s, value, comment))
      ELSE WriteOutcome(NoErr, Nil, ffpky(header, keyarg.s, value, comment))

ReadOutcome(e, r, c, rch) == [err |-> e, ret |-> r, comm |-> c, reached |-> rch]

\* Y_fitsio_read_key with a keyword name and a variable for the comment:
\* fitsio_read_key(fh, key, comm).
read_key(h, key) ==
  LET closed == yfits_fetch(h, NOT_CLOSED + CRITICAL)
      i == FindCard(header, key)
      status == IF i = 0 THEN KEY_NO_EXIST
                ELSE IF header[i].value = <<>> THEN VALUE_UNDEFINED
                ELSE 0
  IN  IF closed # NoErr THEN ReadOutcome(closed, NoRet, NoRet, FALSE)
      ELSE IF status = 0
      THEN LET o == push_key_value(header[i].value)
           IN  ReadOutcome(o.err, o.ret, StrVal(header[i].comment), TRUE)
      ELSE IF status = VALUE_UNDEFINED
      THEN ReadOutcome(NoErr, StrVal(NullString), StrVal(header[i].comment), TRUE)
      ELSE ReadOutcome(NoErr, Nil, StrVal(NullString), TRUE)

(* ------------------------------------------------------------------ *)
(* Actions: one per built-in.                                          *)
(* ------------------------------------------------------------------ *)
Snapshot(h) == [num |-> Len(hdus[h]), cur |-> curhdu[h], fptr |-> fptr[h]]

\* A built-in on handle h that does not release the file.
Apply(c, h, o) ==
  /\ ~freed[c.h] /\ ~freed[h]
  /\ call' = c
  /\ pre' = Snapshot(h)
  /\ ret' = o.ret
  /\ err' = o.err
  /\ reached' = o.reached
  /\ libstatus' = (IF o.reached THEN o.lib.status ELSE 0)
  /\ reported' = FALSE
  /\ hdus' = [hdus EXCEPT ![h] = o.lib.hdus]
  /\ curhdu' = [curhdu EXCEPT ![h] = o.lib.cur]
  /\ maxhdu' = [maxhdu EXCEPT ![h] = o.lib.max]
  /\ UNCHANGED <<fptr, nrelease, freed, header, comm, tok, ctext, unit, img, cols, data, nullv, rd>>

\* A built-in (or the finalizer) that releases the file of handle h.  The
\* library frees its state of a file it releases.
ApplyRelease(c, h, r, final) ==
  /\ ~freed[h]
  /\ call' = c
  /\ pre' = Snapshot(h)
  /\ ret' = NoRet
  /\ err' = r.err
  /\ reached' = r.reached
  /\ libstatus' = r.status
  /\ reported' = r.reported
  /\ fptr' = [fptr EXCEPT ![h] = r.fptr]
  /\ nrelease' = [nrelease EXCEPT ![h] = @ + r.released]
  /\ freed' = [freed EXCEPT ![h] = final]
  /\ hdus' = [hdus EXCEPT ![h] = IF r.released > 0 THEN <<>> ELSE @]
  /\ curhdu' = [curhdu EXCEPT ![h] = IF r.released > 0 THEN 0 ELSE @]
  /\ maxhdu' = [maxhdu EXCEPT ![h] = IF r.released > 0 THEN 0 ELSE @]
  /\ UNCHANGED <<header, comm, tok, ctext, unit, img, cols, data, nullv, rd>>

MoveNumbers == 0..(MaxHdus + 1)
MoveOffsets == {0 - MaxHdus, 0 - 1, 0, 1, MaxHdus}
ExtTypes == {ANY_HDU, IMAGE_HDU, 3}
ExtNames == {"evt", "NONE"}
ExtVers == {0, 1}

CloseHandle(h) ==
  \E st \in CloseStatuses :
    ApplyRelease(Call("close_file", h, <<>>, TRUE), h, close_file(h, st), FALSE)

Y_fitsio_close_file == \E h \in Handles : CloseHandle(h)

Y_fitsio_delete_file ==
  \E h \in NavHandles, st \in CloseStatuses :
    ApplyRelease(Call("delete_file", h, <<>>, TRUE), h, delete_file(h, st), FALSE)

Finalize ==
  \E h \in NavHandles, st \in CloseStatuses :
    ApplyRelease(Call("yfits_free", h, <<>>, TRUE), h, yfits_free(h, st), TRUE)

Y_fitsio_is_open ==
  \E h \in Handles : Apply(Call("is_open", h, <<>>, FALSE), h, is_open(h))

Y_fitsio_movabs_hdu ==
  \E h \in NavHandles, n \in MoveNumbers, sub \in BOOLEAN :
    Apply(Call("movabs_hdu", h, <<n>>, sub), h, movabs_hdu(h, n, sub))

Y_fitsio_movrel_hdu ==
  \E h \in NavHandles, k \in MoveOffsets, sub \in BOOLEAN :
    Apply(Call("movrel_hdu", h, <<k>>, sub), h, movrel_hdu(h, k, sub))

Y_fitsio_movnam_hdu ==
  \E h \in NavHandles, t \in ExtTypes, name \in ExtNames, ver \in ExtVers, sub \in BOOLEAN :
    Apply(Call("movnam_hdu", h, <<t, name, ver>>, sub), h, movnam_hdu(h, t, name, ver, sub))

Y_fitsio_get_num_hdus ==
  \E h \in Handles : Apply(Call("get_num_hdus", h, <<>>, FALSE), h, get_num_hdus(h))

Y_fitsio_get_hdu_num ==
  \E h \in Handles : Apply(Call("get_hdu_num", h, <<>>, FALSE), h, get_hdu_num(h))

Y_fitsio_get_hdu_type ==
  \E h \in NavHandles : Apply(Call("get_hdu_type", h, <<>>, FALSE), h, get_hdu_type(h))

Y_fitsio_delete_hdu ==
  \E h \in NavHandles : Apply(Call("delete_hdu", h, <<>>, FALSE), h, delete_hdu(h))

Y_fitsio_copy_hdu ==
  \E inp \in Handles, out \in Handles :
    /\ Len(hdus[out]) < (IF out \in NavHandles THEN MaxHdus ELSE MaxOut)
    \* the input of a copy that reaches the library has a current HDU
    /\ (fptr[inp] # NULL /\ fptr[out] # NULL /\ inp # out) => hdus[inp] # <<>>
    /\ Apply(Call("copy_hdu", inp, <<out>>, FALSE), out, copy_hdu(inp, out))

Y_fitsio_other ==
  \E h \in NavHandles, op \in OtherOps :
    Apply(Call(op, h, <<>>, FALSE), h, other_op(h, op))

\* Handle 1 was just returned by open_file and is on the primary HDU of its
\* file; handle 2 was just returned by create_file and its file is empty.
Init ==
  /\ fptr = [h \in Handles |-> "fptr"]
  /\ \E f \in Files : hdus = [h \in Handles |-> IF h \in NavHandles THEN f ELSE <<>>]
  /\ curhdu = [h \in Handles |-> 1]
  /\ maxhdu = [h \in Handles |-> IF h \in NavHandles THEN 1 ELSE 0]
  /\ nrelease = [h \in Handles |-> 0]
  /\ freed = [h \in Handles |-> FALSE]
  /\ call = Call("open_file", 1, <<>>, FALSE)
  /\ ret = NoRet
  /\ err = NoErr
  /\ reached = TRUE
  /\ libstatus = 0
  /\ reported = FALSE
  /\ pre = [num |-> 0, cur |-> 0, fptr |-> NULL]
  /\ header = <<>>
  /\ comm = NoRet
  /\ tok = <<>>
  /\ ctext = <<>>
  /\ unit = NoRet
  /\ img = <<>>
  /\ cols = <<>>
  /\ data = NoData
  /\ nullv = NoRet
  /\ rd = NoRead

Next ==
  \/ Y_fitsio_close_file
  \/ Y_fitsio_delete_file
  \/ Finalize
  \/ Y_fitsio_is_open
  \/ Y_fitsio_movabs_hdu
  \/ Y_fitsio_movrel_hdu
  \/ Y_fitsio_movnam_hdu
  \/ Y_fitsio_get_num_hdus
  \/ Y_fitsio_get_hdu_num
  \/ Y_fitsio_get_hdu_type
  \/ Y_fitsio_delete_hdu
  \/ Y_fitsio_copy_hdu
  \/ Y_fitsio_other

Spec == Init /\ [][Next]_vars

(* ------------------------------------------------------------------ *)
(* Actions on the cards of the current HDU of handle 1.                *)
(* ------------------------------------------------------------------ *)
Keys == {"FLAG", "GAIN"}
KeyArgs == { StringArg(k) : k \in Keys } \cup {Arg("Y_LONG", 0, 1, Dec(0, 0), Dec(0, 0), "")}

Doubles == {Dec(0 - 25, 0 - 2)}
Strings == {<<"i", "t", "'", "s">>}

ValArgs ==
  { CharArg(c) : c \in {"T", "t", "F", "f", "x"} }
    \cup { LongArg(l) : l \in {0 - 42} }
    \cup { DoubleArg(d) : d \in Doubles }
    \cup {ComplexArg(Dec(1, 0), Dec(0 - 25, 0 - 2))}
    \cup { StringArg(s) : s \in Strings }
    \cup {VoidArg,
          Arg("Y_LONG", 1, 0, Dec(0, 0), Dec(0, 0), <<>>),
          Arg("Y_POINTER", 0, 0, Dec(0, 0), Dec(0, 0), <<>>)}

CommArgs == {StringArg(<<"n", "e", "w">>)}

KeyApply(c, o, cm) ==
  /\ ~freed[c.h]
  /\ call' = c
  /\ pre' = Snapshot(c.h)
  /\ ret' = o.ret
  /\ err' = o.err
  /\ reached' = o.reached
  /\ libstatus' = 0
  /\ reported' = FALSE
  /\ header' = o.header
  /\ comm' = cm
  /\ UNCHANGED <<tok, ctext, unit, img, cols, data, nullv, rd>>
  /\ UNCHANGED <<fptr, hdus, curhdu, maxhdu, nrelease, freed>>

\* fitsio_write_key, fh, key, value [, comment];  the keyword is one the
\* header does not hold yet.
Y_fitsio_write_key ==
  \E argc \in {3, 4}, k \in KeyArgs, v \in ValArgs :
    \E c \in (IF argc = 3 THEN {VoidArg} ELSE CommArgs) :
    /\ k.type # "Y_STRING" => (argc = 3 /\ v = VoidArg)
    /\ FindCard(header, k.s) = 0
    /\ KeyApply(Call("write_key", 1, <<k, v, c, argc>>, TRUE),
                write_key(1, argc, k, v, c, FALSE), NoRet)

\* fitsio_update_key, fh, key, value [, comment];
Y_fitsio_update_key ==
  \E argc \in {3, 4}, k \in KeyArgs, v \in ValArgs :
    \E c \in (IF argc = 3 THEN {VoidArg} ELSE CommArgs) :
    /\ k.type # "Y_STRING" => (argc = 3 /\ v = VoidArg)
    /\ KeyApply(Call("update_key", 1, <<k, v, c, argc>>, TRUE),
                write_key(1, argc, k, v, c, TRUE), NoRet)

\* value = fitsio_read_key(fh, key, comm);
Y_fitsio_read_key ==
  \E k \in Keys :
    LET o == read_key(1, k)
    IN  KeyApply(Call("read_key", 1, <<k>>, FALSE),
                 [err |-> o.err, ret |-> o.ret, reached |-> o.reached, header |-> header],
                 o.comm)

InitHeaders ==
  { <<>>,
    <<Card("FLAG", <<"F">>, <<"o", "f", "f">>)>>,
    <<Card("GAIN", <<"2", ".">>, <<"[", "a", "d", "u", "]", " ", "g", "a", "i", "n">>)>> }

\* Handle 1 was just returned by open_file on a file of one HDU.
InitKey ==
  /\ fptr = [h \in Handles |-> "fptr"]
  /\ hdus = [h \in Handles |-> IF h \in NavHandles THEN <<PrimaryHdu>> ELSE <<>>]
  /\ curhdu = [h \in Handles |-> 1]
  /\ maxhdu = [h \in Handles |-> IF h \in NavHandles THEN 1 ELSE 0]
  /\ nrelease = [h \in Handles |-> 0]
  /\ freed = [h \in Handles |-> FALSE]
  /\ call = Call("open_file", 1, <<>>, FALSE)
  /\ ret = NoRet
  /\ err = NoErr
  /\ reached = TRUE
  /\ libstatus = 0
  /\ reported = FALSE
  /\ pre = [num |-> 0, cur |-> 0, fptr |-> NULL]
  /\ header \in InitHeaders
  /\ comm = NoRet
  /\ tok = <<>>
  /\ ctext = <<>>
  /\ unit = NoRet
  /\ img = <<>>
  /\ cols = <<>>
  /\ data = NoData
  /\ nullv = NoRet
  /\ rd = NoRead

NextKey ==
  \/ Y_fitsio_write_key
  \/ Y_fitsio_update_key
  \/ Y_fitsio_read_key

SpecKey == InitKey /\ [][NextKey]_vars

(* ------------------------------------------------------------------ *)
(* fitsio_get_value(card) on a card given as [keyword, value, comment]. *)
(* ------------------------------------------------------------------ *)
NumChars == {"0", "1", ".", "E", "d", "-", "x", "a"}
CplxChars == {"1", ",", ")", " ", "x"}

\* Value texts: numbers and other words, texts in parentheses, two longer
\* texts, and the null pointer.
Tokens ==
  SeqsUpTo(NumChars, MaxTok)
    \cup { <<"(">> \o b : b \in SeqsUpTo(CplxChars, MaxTok) }
    \cup {<<"1", ".", "0", "D", "5">>, <<"(", "1", " ", ",", "1", " ", ")">>, NullString}

\* fetch_card with rank 1 and 3 elements (n = 3), then push_key_value(card[1]).
get_value(card) == push_key_value(card[2])

Y_fitsio_get_value ==
  /\ call.op # "get_value"
  /\ LET o == get_value(<<<<"K", "E", "Y">>, tok, <<>>>>)
     IN  /\ call' = Call("get_value", 0, <<>>, FALSE)
         /\ ret' = o.ret
         /\ err' = o.err
  /\ UNCHANGED <<fptr, hdus, curhdu, maxhdu, nrelease, freed, reached, libstatus,
                 reported, pre, header, comm, tok, ctext, unit, img, cols, data, nullv, rd>>

InitValue ==
  /\ fptr = [h \in Handles |-> "fptr"]
  /\ hdus = [h \in Handles |-> IF h \in NavHandles THEN <<PrimaryHdu>> ELSE <<>>]
  /\ curhdu = [h \in Handles |-> 1]
  /\ maxhdu = [h \in Handles |-> IF h \in NavHandles THEN 1 ELSE 0]
  /\ nrelease = [h \in Handles |-> 0]
  /\ freed = [h \in Handles |-> FALSE]
  /\ call = Call("open_file", 1, <<>>, FALSE)
  /\ ret = NoRet
  /\ err = NoErr
  /\ reached = TRUE
  /\ libstatus = 0
  /\ reported = FALSE
  /\ pre = [num |-> 0, cur |-> 0, fptr |-> NULL]
  /\ header = <<>>
  /\ comm = NoRet
  /\ tok \in Tokens
  /\ ctext = <<>>
  /\ unit = NoRet
  /\ img = <<>>
  /\ cols = <<>>
  /\ data = NoData
  /\ nullv = NoRet
  /\ rd = NoRead

NextValue == Y_fitsio_get_value

SpecValue == InitValue /\ [][NextValue]_vars

(* ------------------------------------------------------------------ *)
(* fitsio_get_comment(card, unit) on a card given as                   *)
(* [keyword, value, comment].                                          *)
(* ------------------------------------------------------------------ *)
CommChars == {"[", "]", " ", "m"}
CommentTexts == SeqsUpTo(CommChars, MaxComm) \cup {NullString}

Y_fitsio_get_comment ==
  \E argc \in {1, 2} :
    /\ call.op # "get_comment"
    /\ LET o == get_comment(<<<<"K", "E", "Y">>, <<"1">>, ctext>>, argc)
       IN  /\ call' = Call("get_comment", 0, <<argc>>, FALSE)
           /\ ret' = o.ret
           /\ err' = o.err
           /\ unit' = o.unit
    /\ UNCHANGED <<fptr, hdus, curhdu, maxhdu, nrelease, freed, reached, libstatus,
                   reported, pre, header, comm, tok, ctext, img, cols, data, nullv, rd>>

InitComment ==
  /\ fptr = [h \in Handles |-> "fptr"]
  /\ hdus = [h \in Handles |-> IF h \in NavHandles THEN <<PrimaryHdu>> ELSE <<>>]
  /\ curhdu = [h \in Handles |-> 1]
  /\ maxhdu = [h \in Handles |-> IF h \in NavHandles THEN 1 ELSE 0]
  /\ nrelease = [h \in Handles |-> 0]
  /\ freed = [h \in Handles |-> FALSE]
  /\ call = Call("open_file", 1, <<>>, FALSE)
  /\ ret = NoRet
  /\ err = NoErr
  /\ reached = TRUE
  /\ libstatus = 0
  /\ reported = FALSE
  /\ pre = [num |-> 0, cur |-> 0, fptr |-> NULL]
  /\ header = <<>>
  /\ comm = NoRet
  /\ tok = <<>>
  /\ ctext \in CommentTexts
  /\ unit = NoRet
  /\ img = <<>>
  /\ cols = <<>>
  /\ data = NoData
  /\ nullv = NoRet
  /\ rd = NoRead

NextComment == Y_fitsio_get_comment

SpecComment == InitComment /\ [][NextComment]_vars

(* ------------------------------------------------------------------ *)
(* Images: fitsio_read_img and fitsio_write_img on the image of the    *)
(* current HDU.  A C long has LongBits bits.                           *)
(* ------------------------------------------------------------------ *)
LONG_MAX == Pow(2, LongBits - 1) - 1
LONG_MIN == 0 - Pow(2, LongBits - 1)

\* The exact result x does not fit in a long: the C operation is undefined.
Overflows(x) == x > LONG_MAX \/ x < LONG_MIN

ArrVal(dims) == [t |-> "array", v |-> dims]

\* An array argument: type identifier, rank and elements.
ImgArg(type, rank, v) == [type |-> type, rank |-> rank, v |-> v]
\* A keyword that was not given.
Absent == ImgArg("absent", 0, <<>>)
VoidImgArg == ImgArg("Y_VOID", 0, <<>>)

\* The source array of a write: type identifier and dimension list.
SrcArr(type, dims) == [type |-> type, dims |-> dims]

ImgOutcome(e, r, rch) == [err |-> e, ret |-> r, reached |-> rch]

RECURSIVE Product(_)
Product(d) == IF d = <<>> THEN 1 ELSE d[1] * Product(Tail(d))

\* x reduced to the LongBits bits of a long (two's complement)
Wrap(x) == ((x - LONG_MIN) % Pow(2, LongBits)) + LONG_MIN

\* number *= dims[k] leaves the range of a long for some k
ProductOverflows(image) ==
  \E k \in 1..Len(image) : Overflows(Product(SubSeq(image, 1, k)))

\* The values the loop of get_image_param can leave in number: the product
\* when every step fits in a long; otherwise the multiplication is undefined
\* and the build gives the wrapped product or any other long.
ImageCounts(image) ==
  IF ProductOverflows(image)
  THEN {Wrap(Product(image)), 0, LONG_MAX}
  ELSE {Product(image)}

\* get_image_param: number of axes, axis lengths, number of elements; g is
\* what the loop left in number.
get_image_param(image, g) ==
  [naxis |-> Len(image), dims |-> image, ntot |-> g]

\* The number of elements of the image for the library: an HDU with no axis
\* has no data.
fits_image_size(image) == IF image = <<>> THEN 0 ELSE Product(image)

\* The library reads or writes nelem elements from element first of an
\* array of ntot elements, and refuses elements outside the array.
fits_elem_status(first, nelem, ntot) ==
  IF first >= 1 /\ first + nelem - 1 <= ntot THEN 0 ELSE 308

\* (d[0] != 0 && d[0] != 1) || n != naxis
BadCoords(a, naxis) == (a.rank # 0 /\ a.rank # 1) \/ Len(a.v) # naxis

\* the test on axis k of the rectangular sub-array
BadAxis(image, f, l, i, k) ==
  \/ f[k] < 1
  \/ f[k] > l[k]
  \/ l[k] > image[k]
  \/ i[k] < 1
  \/ (l[k] - f[k] + 1) % i[k] # 0

\* Variant: the stride need not divide the length of the interval.
read_subset_AnyStride(image, f, l, i) ==
  IF \E k \in 1..Len(image) :
       f[k] < 1 \/ f[k] > l[k] \/ l[k] > image[k] \/ i[k] < 1
  THEN ImgOutcome(YError("bad sub-array parameters (FIRST, LAST, INCR)"), NoRet, FALSE)
  ELSE ImgOutcome(NoErr,
                  ArrVal([k \in 1..Len(image) |-> (l[k] - f[k] + 1) \div i[k]]),
                  TRUE)

read_subset(image, f, l, i) ==
  IF \E k \in 1..Len(image) : BadAxis(image, f, l, i, k)
  THEN ImgOutcome(YError("bad sub-array parameters (FIRST, LAST, INCR)"), NoRet, FALSE)
  ELSE ImgOutcome(NoErr,
                  ArrVal([k \in 1..Len(image) |-> (l[k] - f[k] + 1) \div i[k]]),
                  TRUE)

\* mode 3 or 7: read a rectangular sub-array.
read_rectangle(image, first, last, incr) ==
  IF BadCoords(first, Len(image))
  THEN ImgOutcome(YError("bad number of coordinates for keyword FIRST"), NoRet, FALSE)
  ELSE IF BadCoords(last, Len(image))
  THEN ImgOutcome(YError("bad number of coordinates for keyword LAST"), NoRet, FALSE)
  ELSE IF incr = Absent
  THEN read_subset(image, first.v, last.v, [k \in 1..Len(image) |-> 1])
  ELSE IF BadCoords(incr, Len(image))
  THEN ImgOutcome(YError("bad number of coordinates for keyword INCR"), NoRet, FALSE)
  ELSE read_subset(image, first.v, last.v, incr.v)

BadRange == ImgOutcome(YError("bad range of array elements"), NoRet, FALSE)

\* the flat read once the range test has let it through
read_flat(first, number, size) ==
  IF number = 0 THEN ImgOutcome(NoErr, Nil, FALSE)
  ELSE IF fits_elem_status(first, number, size) # 0
  THEN ImgOutcome(FitsError(fits_elem_status(first, number, size)), NoRet, TRUE)
  ELSE ImgOutcome(NoErr, ArrVal(<<number>>), TRUE)

\* mode 9: read a flat sub-array.  When first - 1 + number does not fit in
\* a long the outcome of the test is undefined: ub is what it gives.
read_range(first, number, ntot, size, ub) ==
  IF first < 1 \/ number < 0 THEN BadRange
  ELSE IF Overflows(first - 1 + number)
  THEN (IF ub THEN BadRange ELSE read_flat(first, number, size))
  ELSE IF first - 1 + number > ntot THEN BadRange
  ELSE read_flat(first, number, size)

BadCombination ==
  ImgOutcome(YError("bad combination of keywords FIRST, LAST, INCR, or NUMBER"),
             NoRet, FALSE)

\* Y_fitsio_read_img once its arguments are parsed; mode is the sum of the
\* bits of the keywords given (1 FIRST, 2 LAST, 4 INCR, 8 NUMBER).
read_img(image, mode, first, last, incr, number, ub, g) ==
  IF get_image_param(image, g).naxis <= 0 THEN ImgOutcome(NoErr, Nil, FALSE)
  ELSE IF mode = 0 THEN ImgOutcome(NoErr, ArrVal(image), TRUE)
  ELSE IF mode = 3 \/ mode = 7 THEN read_rectangle(image, first, last, incr)
  ELSE IF mode = 9
  THEN read_range(first.v[1], number.v[1], get_image_param(image, g).ntot,
                  fits_image_size(image), ub)
  ELSE BadCombination

SupportedTypes ==
  {"Y_CHAR", "Y_SHORT", "Y_INT", "Y_LONG", "Y_FLOAT", "Y_DOUBLE", "Y_COMPLEX", "Y_STRING"}

\* the checks of the value of keyword NULL
null_check(src, null) ==
  IF null = Absent \/ null.type = "Y_VOID" THEN NoErr
  ELSE IF null.rank # 0 THEN YError("null value must be a scalar")
  ELSE IF null.type # src.type
  THEN YError("null value must be of same type as the data")
  ELSE NoErr

\* null != NULL
HasNull(null) == null # Absent /\ null.type # "Y_VOID"

first_case(first) ==
  IF first = Absent THEN 0
  ELSE IF first.type \in IntegerTypes
  THEN (IF first.rank = 0 THEN 1 ELSE IF first.rank = 1 THEN 2 ELSE 0 - 1)
  ELSE IF first.type = "Y_VOID" THEN 0
  ELSE 0 - 1

\* fits_write_subset, fits_write_imgnull or fits_write_img was called and
\* gave this status.
Written(status) ==
  IF status # 0 THEN ImgOutcome(FitsError(status), NoRet, TRUE)
  ELSE ImgOutcome(NoErr, Nil, TRUE)

\* Variant: only the numbers of elements are compared.
write_full_SameCount(image, src) ==
  IF Product(src.dims) # Product(image)
  THEN ImgOutcome(YError("not same dimensions"), NoRet, FALSE)
  ELSE Written(fits_elem_status(1, Product(src.dims), fits_image_size(image)))

\* first_case 0: src_dims[k] against dst_dims[k] for k = 0..naxis, the
\* entry 0 being the number of dimensions.
write_full(image, src) ==
  IF \/ Len(src.dims) # Len(image)
     \/ \E k \in 1..Len(image) : src.dims[k] # image[k]
  THEN ImgOutcome(YError("not same dimensions"), NoRet, FALSE)
  ELSE Written(fits_elem_status(1, Product(src.dims), fits_image_size(image)))

\* first_case 1: an interval of elements.  When src_number + first does not
\* fit in a long the outcome of the test is undefined: ub is what it gives.
write_range(first, src_number, dst_number, size, ub) ==
  IF first < 1
  THEN ImgOutcome(YError("out of range interval"), NoRet, FALSE)
  ELSE IF Overflows(src_number + first)
  THEN (IF ub THEN ImgOutcome(YError("out of range interval"), NoRet, FALSE)
        ELSE Written(fits_elem_status(first, src_number, size)))
  ELSE IF src_number + first - 1 > dst_number
  THEN ImgOutcome(YError("out of range interval"), NoRet, FALSE)
  ELSE Written(fits_elem_status(first, src_number, size))

\* k < src_dims[0] ? src_dims[k+1] - 1 : 0, k counting from 1 here
Extent(src, k) == IF k <= Len(src.dims) THEN src.dims[k] - 1 ELSE 0

\* fpix[k] < 1 || lpix[k] > dst_dims[k+1], with lpix[k] = fpix[k] + extent;
\* when the sum does not fit in a long, ub is what the test gives.
BadWriteAxis(image, src, f, k, ub) ==
  \/ f[k] < 1
  \/ IF Overflows(f[k] + Extent(src, k)) THEN ub
     ELSE f[k] + Extent(src, k) > image[k]

\* the status of fits_write_subset for the corners fpix and lpix
fits_subset_status(image, src, f) ==
  IF \E k \in 1..Len(image) : f[k] < 1 \/ f[k] + Extent(src, k) > image[k]
  THEN 308 ELSE 0

\* first_case 2: a rectangular sub-array.
write_rectangle(image, src, first, null, ub) ==
  IF Len(first.v) # Len(image)
  THEN ImgOutcome(YError("bad number of values in keyword FIRST"), NoRet, FALSE)
  ELSE IF Len(src.dims) > Len(image)
  THEN ImgOutcome(YError("source array has too many dimensions"), NoRet, FALSE)
  ELSE IF \E k \in 1..Len(image) : BadWriteAxis(image, src, first.v, k, ub)
  THEN ImgOutcome(YError("out of range subarray"), NoRet, FALSE)
  ELSE IF HasNull(null)
  THEN ImgOutcome(YError("NULL keyword forbidden when writing a rectangular subarray"),
                  NoRet, FALSE)
  ELSE Written(fits_subset_status(image, src, first.v))

write_case(image, src, first, null, ub, g, case) ==
  IF case = 0 THEN write_full(image, src)
  ELSE IF case = 1
  THEN write_range(first.v[1], Product(src.dims), get_image_param(image, g).ntot,
                   fits_image_size(image), ub)
  ELSE IF case = 2 THEN write_rectangle(image, src, first, null, ub)
  ELSE ImgOutcome(YError("invalid type/rank for keyword FIRST"), NoRet, FALSE)

\* Y_fitsio_write_img once its arguments are parsed.
write_img(image, src, first, null, ub, g) ==
  IF null_check(src, null) # NoErr
  THEN ImgOutcome(null_check(src, null), NoRet, FALSE)
  ELSE IF src.type \notin SupportedTypes
  THEN ImgOutcome(YError("unsupported array type"), NoRet, FALSE)
  ELSE write_case(image, src, first, null, ub, g, first_case(first))

(* ------------------------------------------------------------------ *)
(* The element type of the array a read creates and the value of the   *)
(* NULL keyword it stores.                                             *)
(* ------------------------------------------------------------------ *)
\* sizeof of a C type, sl being sizeof(long) in the build
Sizeof(ctype, sl) ==
  CASE ctype = "char" -> 1
    [] ctype = "short" -> 2
    [] ctype = "int" -> 4
    [] ctype = "long" -> sl
    [] ctype = "float" -> 4
    [] ctype = "double" -> 8

\* The data of the current HDU as the library describes it: an image with
\* its equivalent pixel type (fits_get_img_equivtype) ...
ImageData(bitpix, sl) == [kind |-> "image", bitpix |-> bitpix, sizeof_long |-> sl]

\* ... or a column of a table (fits_get_num_rows, fits_get_eqcoltype,
\* fits_read_tdim); varlen stands for coltype < 0.
Column(coltype, varlen, width, tdim, nrows, sl) ==
  [kind |-> "column", coltype |-> coltype, varlen |-> varlen, width |-> width,
   tdim |-> tdim, nrows |-> nrows, sizeof_long |-> sl]

\* A read: error, value pushed, library read call issued, what the library
\* read (element type, number of elements, anynull) and the value stored in
\* the variable of keyword NULL.
ArrOutcome(e, r, rch, read, null) ==
  [err |-> e, ret |-> r, reached |-> rch, rd |-> read, nullv |-> null]

HasRead(type, number, anynull) ==
  [eltype |-> type, number |-> number, anynull |-> anynull]

\* a scalar of this type, whose value is the null value of the read
ScalarVal(type) == [t |-> "scalar", v |-> type]

\* elsize and eltype (0 unsigned integer, 1 signed integer, 2 floating
\* point) for the equivalent pixel type
img_elem(bitpix) ==
  IF bitpix = "BYTE_IMG" THEN [elsize |-> 1, eltype |-> 0]
  ELSE IF bitpix \in {"SBYTE_IMG", "SHORT_IMG"} THEN [elsize |-> 2, eltype |-> 1]
  ELSE IF bitpix \in {"USHORT_IMG", "LONG_IMG"} THEN [elsize |-> 4, eltype |-> 1]
  ELSE IF bitpix \in {"ULONG_IMG", "LONGLONG_IMG"} THEN [elsize |-> 8, eltype |-> 1]
  ELSE IF bitpix = "FLOAT_IMG" THEN [elsize |-> Sizeof("float", 0), eltype |-> 2]
  ELSE IF bitpix = "DOUBLE_IMG" THEN [elsize |-> Sizeof("double", 0), eltype |-> 2]
  ELSE [elsize |-> 0, eltype |-> 0]

NoType == [datatype |-> "none", type |-> "none"]

\* the library type the pixels are read as and the type of the array
img_type_of(e, sl) ==
  IF e.elsize <= Sizeof("char", sl) /\ e.eltype = 0
  THEN [datatype |-> "TBYTE", type |-> "Y_CHAR"]
  ELSE IF e.elsize <= Sizeof("short", sl) /\ e.eltype = 1
  THEN [datatype |-> "TSHORT", type |-> "Y_SHORT"]
  ELSE IF e.elsize <= Sizeof("int", sl) /\ e.eltype = 1
  THEN [datatype |-> "TINT", type |-> "Y_INT"]
  ELSE IF e.elsize <= Sizeof("long", sl) /\ e.eltype = 1
  THEN [datatype |-> "TLONG", type |-> "Y_LONG"]
  ELSE IF e.elsize <= Sizeof("float", sl) /\ e.eltype = 2
  THEN [datatype |-> "TFLOAT", type |-> "Y_FLOAT"]
  ELSE IF e.elsize <= Sizeof("double", sl) /\ e.eltype = 2
  THEN [datatype |-> "TDOUBLE", type |-> "Y_DOUBLE"]
  ELSE NoType

img_type(bitpix, sl) == img_type_of(img_elem(bitpix), sl)

\* push_scalar: the error it raises for the type tag of the scalar
push_scalar(type) ==
  IF type \in {"Y_CHAR", "Y_SHORT", "Y_INT", "Y_LONG", "Y_FLOAT", "Y_DOUBLE", "Y_VOID"}
  THEN NoErr
  ELSE YError("unknown scalar type")

\* The end of a read that succeeded: when keyword NULL was given, nil or the
\* null value is stored in its variable.
save_null(arr, type, number, nullreq, anynull) ==
  IF ~nullreq
  THEN ArrOutcome(NoErr, arr, TRUE, HasRead(type, number, anynull), NoRet)
  ELSE IF ~anynull
  THEN ArrOutcome(NoErr, arr, TRUE, HasRead(type, number, anynull), Nil)
  ELSE IF push_scalar(type) # NoErr
  THEN ArrOutcome(push_scalar(type), NoRet, TRUE, HasRead(type, number, anynull), NoRet)
  ELSE ArrOutcome(NoErr, arr, TRUE, HasRead(type, number, anynull), ScalarVal(type))

\* Y_fitsio_read_img from the choice of the element type on, o being what
\* the selection of the elements gave: the type is chosen and the array
\* created before the library is asked to read.
read_img_data(d, o, nullreq, anynull) ==
  IF ~o.reached THEN ArrOutcome(o.err, o.ret, FALSE, NoRead, NoRet)
  ELSE IF img_type(d.bitpix, d.sizeof_long) = NoType
  THEN ArrOutcome(YError("unsupported data type"), NoRet, FALSE, NoRead, NoRet)
  ELSE IF o.err # NoErr THEN ArrOutcome(o.err, NoRet, TRUE, NoRead, NoRet)
  ELSE save_null(o.ret, img_type(d.bitpix, d.sizeof_long).type, Product(o.ret.v),
                 nullreq, anynull)

(* ------------------------------------------------------------------ *)
(* Columns: fitsio_read_col and fitsio_write_col.                      *)
(* ------------------------------------------------------------------ *)
\* the length of a dimension list of the interpreter
Y_DIMSIZE == 11

ColShape(e, dims) == [err |-> e, dims |-> dims]

\* the dimensions of a cell: a column of strings loses its leading
\* dimension, which must be the width, and a single dimension of length 1
\* is no dimension
col_shape(col) ==
  IF col.coltype = "TSTRING"
  THEN (IF Len(col.tdim) < 1 \/ col.tdim[1] # col.width
        THEN ColShape(YError("assumption failed!"), <<>>)
        ELSE ColShape(NoErr, Tail(col.tdim)))
  ELSE IF col.tdim = <<1>> THEN ColShape(NoErr, <<>>)
  ELSE ColShape(NoErr, col.tdim)

\* the switch on coltype of Y_fitsio_read_col
read_col_type(coltype) ==
  IF coltype = "TBIT" THEN [datatype |-> "TBIT", type |-> "Y_CHAR", null |-> "Y_CHAR"]
  ELSE IF coltype = "TSTRING"
  THEN [datatype |-> "TSTRING", type |-> "Y_STRING", null |-> "Y_CHAR"]
  ELSE IF coltype \in {"TBYTE", "TLOGICAL"}
  THEN [datatype |-> "TBYTE", type |-> "Y_CHAR", null |-> "Y_CHAR"]
  ELSE IF coltype \in {"TSBYTE", "TSHORT"}
  THEN [datatype |-> "TSHORT", type |-> "Y_SHORT", null |-> "Y_SHORT"]
  ELSE IF coltype \in {"TUSHORT", "TINT"}
  THEN [datatype |-> "TINT", type |-> "Y_INT", null |-> "Y_INT"]
  ELSE IF coltype \in {"TUINT", "TULONG", "TLONG", "TLONGLONG"}
  THEN [datatype |-> "TLONG", type |-> "Y_LONG", null |-> "Y_LONG"]
  ELSE IF coltype = "TFLOAT"
  THEN [datatype |-> "TFLOAT", type |-> "Y_FLOAT", null |-> "Y_FLOAT"]
  ELSE IF coltype = "TDOUBLE"
  THEN [datatype |-> "TDOUBLE", type |-> "Y_DOUBLE", null |-> "Y_DOUBLE"]
  ELSE IF coltype \in {"TCOMPLEX", "TDBLCOMPLEX"}
  THEN [datatype |-> "TDBLCOMPLEX", type |-> "Y_COMPLEX", null |-> "Y_COMPLEX"]
  ELSE [datatype |-> "none", type |-> "none", null |-> "none"]

NotRead(msg) == ArrOutcome(YError(msg), NoRet, FALSE, NoRead, NoRet)

\* the end of a read of a column: the null value has the tag t.null while
\* the array has the type t.type
save_col_null(arr, t, number, nullreq, anynull) ==
  [save_null(arr, t.null, number, nullreq, anynull) EXCEPT
     !.rd = HasRead(t.type, number, anynull)]

\* Variant: a last row beyond the table is brought back to the last row.
row_range_Truncated(firstrow, lastrow, nrows) ==
  [first |-> firstrow,
   last |-> IF lastrow > nrows THEN nrows ELSE lastrow,
   bad |-> firstrow < 1 \/ firstrow > nrows
           \/ firstrow > (IF lastrow > nrows THEN nrows ELSE lastrow)]

\* firstrow < 1 || firstrow > lastrow || lastrow > nrows
row_range(firstrow, lastrow, nrows) ==
  [first |-> firstrow, last |-> lastrow,
   bad |-> firstrow < 1 \/ firstrow > lastrow \/ lastrow > nrows]

\* Variant: the dimension of the rows is appended for a single row too.
result_dims_AlwaysRows(cell, first, last) == cell \o <<last - first + 1>>

\* the dimensions of the result: those of a cell, then the number of rows
\* when firstrow < lastrow
result_dims(cell, first, last) ==
  IF first < last THEN cell \o <<last - first + 1>> ELSE cell

\* the read once the rows and the dimensions are known
read_col_rows(col, r, cell, nullreq, anynull) ==
  IF r.first < r.last /\ Len(cell) >= Y_DIMSIZE - 1
  THEN NotRead("too many dimensions")
  ELSE IF read_col_type(col.coltype).type = "none"
  THEN NotRead("unsupported array type")
  ELSE save_col_null(ArrVal(result_dims(cell, r.first, r.last)),
                     read_col_type(col.coltype),
                     Product(result_dims(cell, r.first, r.last)),
                     nullreq, anynull)

read_col_range(col, r, nullreq, anynull) ==
  IF r.bad THEN NotRead("invalid range of rows")
  ELSE IF col_shape(col).err # NoErr
  THEN ArrOutcome(col_shape(col).err, NoRet, FALSE, NoRead, NoRet)
  ELSE read_col_rows(col, r, col_shape(col).dims, nullreq, anynull)

\* Y_fitsio_read_col once its arguments are parsed: pos is the number of
\* positional arguments (2 to 4), firstrow and lastrow those given.
read_col(col, pos, firstrow, lastrow, nullreq, anynull) ==
  IF col.varlen THEN NotRead("variable size arrays not yet supported")
  ELSE read_col_range(col,
                      row_range(IF pos < 3 THEN 1 ELSE firstrow,
                                IF pos < 4 THEN col.nrows ELSE lastrow,
                                col.nrows),
                      nullreq, anynull)

\* The status of fits_write_col and fits_write_colnull: rows are counted
\* from 1, and strings can only be written to a column of strings.
fits_write_col_status(col, src, firstrow) ==
  IF firstrow < 1 THEN 307
  ELSE IF src.type = "Y_STRING" /\ col.coltype # "TSTRING" THEN 309
  ELSE 0

NotWritten(msg) == ImgOutcome(YError(msg), NoRet, FALSE)

\* Variant: only the number of dimensions of the data is checked.
write_col_dims_RankOnly(col, src, cell, firstrow) ==
  IF Len(src.dims) # Len(cell) + 1 /\ Len(src.dims) # Len(cell)
  THEN NotWritten("incompatible number of dimensions")
  ELSE Written(fits_write_col_status(col, src, firstrow))

\* the checks of the dimensions of the data against those of a cell, then
\* the write
write_col_dims(col, src, cell, firstrow) ==
  IF Len(src.dims) # Len(cell) + 1 /\ Len(src.dims) # Len(cell)
  THEN NotWritten("incompatible number of dimensions")
  ELSE IF \E k \in 1..Len(cell) : src.dims[k] # cell[k]
  THEN NotWritten("non matching dimension(s)")
  ELSE Written(fits_write_col_status(col, src, firstrow))

\* the checks of the type of the data against the type of the column
write_col_type(col, src, firstrow) ==
  IF col.coltype = "TSTRING"
  THEN (IF src.type # "Y_STRING"
        THEN NotWritten("expecting array of strings for this column")
        ELSE IF col_shape(col).err # NoErr
        THEN ImgOutcome(col_shape(col).err, NoRet, FALSE)
        ELSE write_col_dims(col, src, col_shape(col).dims, firstrow))
  ELSE IF src.type \notin SupportedTypes
  THEN NotWritten("unsupported array type")
  ELSE write_col_dims(col, src, col_shape(col).dims, firstrow)

\* Variant: a column of variable size is refused once the data are written.
write_col_CheckAfter(col, src, firstrow, null) ==
  IF null_check(src, null) # NoErr
  THEN ImgOutcome(null_check(src, null), NoRet, FALSE)
  ELSE IF col.varlen
  THEN ImgOutcome(YError("writing variable size arrays not yet implemented"),
                  NoRet, TRUE)
  ELSE write_col_type(col, src, firstrow)

\* Y_fitsio_write_col once its arguments are parsed.
write_col(col, src, firstrow, null) ==
  IF null_check(src, null) # NoErr
  THEN ImgOutcome(null_check(src, null), NoRet, FALSE)
  ELSE IF col.varlen
  THEN NotWritten("writing variable size arrays not yet implemented")
  ELSE write_col_type(col, src, firstrow)

(* ------------------------------------------------------------------ *)
(* The image built-ins on a handle whose current HDU holds an image.   *)
(* ------------------------------------------------------------------ *)
Coords == 0..MaxCoord

Vectors ==
  {ImgArg("Y_LONG", 1, v) : v \in SeqsUpTo(Coords, 2) \ {<<>>}}
    \cup {ImgArg("Y_LONG", 1, <<4, 6>>), ImgArg("Y_LONG", 1, <<LONG_MAX, 1>>),
          ImgArg("Y_LONG", 1, <<1, 1, 1>>), ImgArg("Y_LONG", 0, <<1>>),
          ImgArg("Y_LONG", 0, <<2>>), ImgArg("Y_LONG", 2, <<1, 1>>)}

Strides ==
  {ImgArg("Y_LONG", 1, v) :
     v \in {<<1>>, <<2>>, <<0, 1>>, <<1, 1>>, <<1, 2>>, <<2, 1>>, <<1, 1, 1>>}}
    \cup {ImgArg("Y_LONG", 0, <<1>>), ImgArg("Y_LONG", 2, <<1, 1>>)}

Longs == {LONG_MIN, 0 - 1, 0, 1, 2, 3, LONG_MAX - 1, LONG_MAX}

Scalars == {ImgArg("Y_LONG", 0, <<l>>) : l \in Longs}

Images == {<<>>, <<2>>, <<1, 2>>, <<10, 10>>, <<LONG_MAX, 2>>}

\* mode has the bit b (1 FIRST, 2 LAST, 4 INCR, 8 NUMBER).
HasBit(mode, b) == (mode \div b) % 2 = 1

Keyword(mode, b) == IF HasBit(mode, b) THEN ImgArg("Y_LONG", 0, <<1>>) ELSE Absent

\* The values <<first, last, incr, number>> given with the keywords of mode.
ReadArgs(mode) ==
  IF mode = 3 THEN {<<f, l, Absent, Absent>> : f \in Vectors, l \in Vectors}
  ELSE IF mode = 7
  THEN {<<f, l, i, Absent>> : f \in Vectors, l \in Vectors, i \in Strides}
  ELSE IF mode = 9 THEN {<<f, Absent, Absent, n>> : f \in Scalars, n \in Scalars}
  ELSE {<<Keyword(mode, 1), Keyword(mode, 2), Keyword(mode, 4), Keyword(mode, 8)>>}

\* fitsio_read_img(fh, first=, last=, incr=, number=, null=) on handle 1
ReadImgCall(mode, a, ub, g, nullreq, anynull) ==
  LET sel == read_img(img, mode, a[1], a[2], a[3], a[4], ub, g)
      o == read_img_data(data, sel, nullreq, anynull)
  IN  /\ call' = Call("read_img", 1, <<mode, a[1], a[2], a[3], a[4], nullreq>>, FALSE)
      /\ ret' = o.ret
      /\ err' = o.err
      /\ reached' = o.reached
      /\ rd' = o.rd
      /\ nullv' = o.nullv
      /\ UNCHANGED <<fptr, hdus, curhdu, maxhdu, nrelease, freed, libstatus,
                     reported, pre, header, comm, tok, ctext, unit, img, cols, data>>

\* The call without keyword NULL on an image with no undefined pixel: the
\* selection of the elements is what varies.
Y_fitsio_read_img ==
  /\ call.op = "open_file"
  /\ data.kind = "image"
  /\ \E mode \in 0..15 :
       \E a \in ReadArgs(mode), ub \in BOOLEAN, g \in ImageCounts(img) :
         ReadImgCall(mode, a, ub, g, FALSE, FALSE)

SrcDims == {<<>>, <<1>>, <<2>>, <<4>>, <<1, 2>>, <<2, 1>>, <<1, 2, 1>>, <<10, 10>>}

Sources == {SrcArr("Y_LONG", d) : d \in SrcDims} \cup {SrcArr("Y_POINTER", <<2>>)}

FirstArgs ==
  {Absent, VoidImgArg, ImgArg("Y_DOUBLE", 0, <<1>>)} \cup Scalars \cup Vectors

NullArgs ==
  {Absent, VoidImgArg, ImgArg("Y_LONG", 0, <<0>>), ImgArg("Y_DOUBLE", 0, <<0>>),
   ImgArg("Y_LONG", 1, <<0>>)}

Y_fitsio_write_img ==
  /\ call.op = "open_file"
  /\ data.kind = "image"
  /\ \E src \in Sources, first \in FirstArgs, null \in NullArgs, ub \in BOOLEAN,
        g \in ImageCounts(img) :
       LET o == write_img(img, src, first, null, ub, g)
       IN  /\ call' = Call("write_img", 1, <<src, first, null>>, FALSE)
           /\ ret' = o.ret
           /\ err' = o.err
           /\ reached' = o.reached
  /\ UNCHANGED <<fptr, hdus, curhdu, maxhdu, nrelease, freed, libstatus,
                 reported, pre, header, comm, tok, ctext, unit, img, cols, data, nullv, rd>>

InitImg ==
  /\ fptr = [h \in Handles |-> "fptr"]
  /\ hdus = [h \in Handles |-> IF h \in NavHandles THEN <<PrimaryHdu>> ELSE <<>>]
  /\ curhdu = [h \in Handles |-> 1]
  /\ maxhdu = [h \in Handles |-> IF h \in NavHandles THEN 1 ELSE 0]
  /\ nrelease = [h \in Handles |-> 0]
  /\ freed = [h \in Handles |-> FALSE]
  /\ call = Call("open_file", 1, <<>>, FALSE)
  /\ ret = NoRet
  /\ err = NoErr
  /\ reached = TRUE
  /\ libstatus = 0
  /\ reported = FALSE
  /\ pre = [num |-> 0, cur |-> 0, fptr |-> NULL]
  /\ header = <<>>
  /\ comm = NoRet
  /\ tok = <<>>
  /\ ctext = <<>>
  /\ unit = NoRet
  /\ img \in Images
  /\ cols = <<>>
  /\ data = ImageData("LONG_IMG", 8)
  /\ nullv = NoRet
  /\ rd = NoRead

NextImg == Y_fitsio_read_img \/ Y_fitsio_write_img

SpecImg == InitImg /\ [][NextImg]_vars

(* ------------------------------------------------------------------ *)
(* Columns of the table of the current HDU: fitsio_get_colnum and      *)
(* fitsio_get_colname.  The library's fits_get_colname (ffgcnn) and    *)
(* its comparison of a template with a name (ffcmps).                  *)
(* ------------------------------------------------------------------ *)
LowerSeq ==
  <<"a", "b", "c", "d", "e", "f", "g", "h", "i", "j", "k", "l", "m",
    "n", "o", "p", "q", "r", "s", "t", "u", "v", "w", "x", "y", "z">>
UpperSeq ==
  <<"A", "B", "C", "D", "E", "F", "G", "H", "I", "J", "K", "L", "M",
    "N", "O", "P", "Q", "R", "S", "T", "U", "V", "W", "X", "Y", "Z">>

ToUpper(c) ==
  IF \E i \in 1..26 : LowerSeq[i] = c
  THEN UpperSeq[CHOOSE i \in 1..26 : LowerSeq[i] = c]
  ELSE c

UpperStr(s) == [i \in 1..Len(s) |-> ToUpper(s[i])]

\* the template t against the name c with the wild cards: '*' any sequence
\* of characters, '?' any character, '#' a sequence of decimal digits
RECURSIVE WildMatch(_, _)
WildMatch(t, c) ==
  IF t = <<>> THEN c = <<>>
  ELSE IF t[1] = "*"
  THEN \E i \in 1..(Len(c) + 1) : WildMatch(Tail(t), SubSeq(c, i, Len(c)))
  ELSE IF c = <<>> THEN FALSE
  ELSE IF t[1] = "?" \/ t[1] = c[1] THEN WildMatch(Tail(t), Tail(c))
  ELSE IF t[1] = "#" /\ c[1] \in Digits
  THEN \E i \in 2..DigitsEnd(c, 1) : WildMatch(Tail(t), SubSeq(c, i, Len(c)))
  ELSE FALSE

Fold(s, casesen) == IF casesen THEN s ELSE UpperStr(s)

\* ffcmps: the strings are first compared literally (an exact match), then
\* with the wild cards of the template.
ffcmps(templt, colname, casesen) ==
  [exact |-> Fold(templt, casesen) = Fold(colname, casesen),
   match |-> \/ Fold(templt, casesen) = Fold(colname, casesen)
             \/ WildMatch(Fold(templt, casesen), Fold(colname, casesen))]

ColFound(status, colnum, startcol) ==
  [status |-> status, colnum |-> colnum, startcol |-> startcol]

\* state of the scan of ffgcnn over the columns
Scan(colnum, startcol, founde, foundw, unique, stop) ==
  [colnum |-> colnum, startcol |-> startcol, founde |-> founde,
   foundw |-> foundw, unique |-> unique, stop |-> stop]

\* one column of the scan of ffgcnn: sc is the scan so far, ii the column
\* (from 1), m the comparison of the template with its name
ffgcnn_step(sc, ii, m) ==
  IF sc.stop \/ ~m.match THEN sc
  ELSE IF sc.founde /\ m.exact
  THEN Scan(sc.colnum, sc.colnum, TRUE, sc.foundw, sc.unique, TRUE)
  ELSE IF sc.founde THEN sc
  ELSE IF m.exact
  THEN Scan(ii, sc.startcol, TRUE, sc.foundw, sc.unique, FALSE)
  ELSE IF sc.foundw
  THEN Scan(sc.colnum, sc.startcol, FALSE, TRUE, FALSE, FALSE)
  ELSE Scan(ii, ii, FALSE, TRUE, TRUE, FALSE)

RECURSIVE ffgcnn_scan(_, _, _, _, _)
ffgcnn_scan(names, casesen, templt, ii, sc) ==
  IF ii > Len(names) THEN sc
  ELSE ffgcnn_scan(names, casesen, templt, ii + 1,
                   ffgcnn_step(sc, ii, ffcmps(templt, names[ii], casesen)))

\* the template is the number of a column
IsColumnNumber(names, templt) ==
  /\ templt # <<>>
  /\ \A i \in 1..Len(templt) : templt[i] \in Digits
  /\ DigitsVal(templt, 1, Len(templt) + 1) >= 1
  /\ DigitsVal(templt, 1, Len(templt) + 1) <= Len(names)

\* the end of ffgcnn; wasnu: the status given was COL_NOT_UNIQUE
ffgcnn_end(names, templt, wasnu, sc) ==
  IF sc.stop THEN ColFound(COL_NOT_UNIQUE, sc.colnum, sc.startcol)
  ELSE IF sc.founde
  THEN ColFound(IF wasnu THEN COL_NOT_UNIQUE ELSE 0, sc.colnum, sc.colnum)
  ELSE IF sc.foundw
  THEN ColFound(IF ~sc.unique \/ wasnu THEN COL_NOT_UNIQUE ELSE 0,
                sc.colnum, sc.colnum)
  ELSE IF IsColumnNumber(names, templt)
  THEN ColFound(0, DigitsVal(templt, 1, Len(templt) + 1),
                DigitsVal(templt, 1, Len(templt) + 1))
  ELSE ColFound(COL_NOT_FOUND, 0, 0)

\* fits_get_colname / fits_get_colnum (ffgcnn): the next column whose name
\* matches the template, from the first column when status is 0 and from
\* where the last call stopped when status is COL_NOT_UNIQUE.
ffgcnn(names, casesen, templt, status, startcol) ==
  IF status > 0 /\ status # COL_NOT_UNIQUE THEN ColFound(status, 0, startcol)
  ELSE ffgcnn_end(names, templt, status = COL_NOT_UNIQUE,
                  ffgcnn_scan(names, casesen, templt,
                              (IF status = COL_NOT_UNIQUE THEN startcol ELSE 0) + 1,
                              Scan(0, IF status = COL_NOT_UNIQUE THEN startcol ELSE 0,
                                   FALSE, FALSE, FALSE, FALSE)))

ColOutcome(e, r) == [err |-> e, ret |-> r]

\* while (status == COL_NOT_UNIQUE) { ++ncols; fits_get_colnum(...); }
RECURSIVE count_cols(_, _, _, _, _)
count_cols(names, casesen, templt, r, ncols) ==
  IF r.status = COL_NOT_UNIQUE
  THEN count_cols(names, casesen, templt,
                  ffgcnn(names, casesen, templt, r.status, r.startcol), ncols + 1)
  ELSE [status |-> r.status, ncols |-> ncols]

\* Variant: the loop stops on the first column found again.
fill_cols_FirstOnly(names, casesen, templt, status, startcol, n, acc) ==
  ColOutcome(NoErr, ArrVal(<<ffgcnn(names, casesen, templt, 0, 0).colnum>>))

\* for (col = 0; col < ncols; ++col) { fits_get_colnum(...); ... }
\* acc holds the column numbers found so far, n the number still to find.
RECURSIVE fill_cols(_, _, _, _, _, _, _)
fill_cols(names, casesen, templt, status, startcol, n, acc) ==
  IF n = 0 THEN ColOutcome(NoErr, ArrVal(acc))
  ELSE IF ffgcnn(names, casesen, templt, status, startcol).status # COL_NOT_UNIQUE
  THEN ColOutcome(FitsError(ffgcnn(names, casesen, templt, status, startcol).status), NoRet)
  ELSE fill_cols(names, casesen, templt, COL_NOT_UNIQUE,
                 ffgcnn(names, casesen, templt, status, startcol).startcol, n - 1,
                 Append(acc, ffgcnn(names, casesen, templt, status, startcol).colnum))

\* the columns found when the first call gave the result r with a status
\* that is neither 0 nor COL_NOT_FOUND
several_cols(names, casesen, templt, c) ==
  IF c.status # COL_NOT_FOUND THEN ColOutcome(FitsError(c.status), NoRet)
  ELSE fill_cols(names, casesen, templt, 0, 0, c.ncols, <<>>)

first_col(names, casesen, templt, r) ==
  IF r.status = 0 THEN ColOutcome(NoErr, LongVal(r.colnum))
  ELSE IF r.status = COL_NOT_FOUND THEN ColOutcome(NoErr, Nil)
  ELSE several_cols(names, casesen, templt,
                    count_cols(names, casesen, templt, r, 0))

\* Y_fitsio_get_colnum with a template and the value of keyword CASE.
get_colnum(names, templt, casesen) ==
  IF templt = NullString \/ templt = <<>>
  THEN ColOutcome(YError("invalid TEMPLATE string"), NoRet)
  ELSE first_col(names, casesen, templt, ffgcnn(names, casesen, templt, 0, 0))

\* the names of the columns whose numbers are in r
NamesOf(names, r) ==
  IF r.t = "long" THEN StrVal(names[r.v])
  ELSE IF r.t = "array" THEN ArrVal([i \in 1..Len(r.v) |-> names[r.v[i]]])
  ELSE r

\* Y_fitsio_get_colname: the same calls give the name with the number.
get_colname(names, templt, casesen) ==
  ColOutcome(get_colnum(names, templt, casesen).err,
             NamesOf(names, get_colnum(names, templt, casesen).ret))

ColNames ==
  {<<"F", "L", "U", "X">>, <<"F", "L", "U", "X", "_", "E", "R", "R">>,
   <<"f", "l", "u", "x">>}

Tables == SeqsUpTo(ColNames, MaxCols)

Templates ==
  {<<"F", "L", "U", "X">>, <<"F", "L", "U", "X", "*">>, <<"f", "l", "u", "x">>,
   <<"F", "?", "U", "X">>, <<"*", "_", "E", "R", "R">>, <<"*">>,
   <<"R", "A", "T", "E">>, <<"F", "#">>, <<"2">>, <<>>, NullString}

ColApply(c, o) ==
  /\ call' = c
  /\ ret' = o.ret
  /\ err' = o.err
  /\ UNCHANGED <<fptr, hdus, curhdu, maxhdu, nrelease, freed, reached, libstatus,
                 reported, pre, header, comm, tok, ctext, unit, img, cols, data, nullv, rd>>

Y_fitsio_get_colnum ==
  \E templt \in Templates, casesen \in BOOLEAN :
    /\ call.op = "open_file"
    /\ ColApply(Call("get_colnum", 1, <<templt, casesen>>, FALSE),
                get_colnum(cols, templt, casesen))

Y_fitsio_get_colname ==
  \E templt \in Templates, casesen \in BOOLEAN :
    /\ call.op = "open_file"
    /\ ColApply(Call("get_colname", 1, <<templt, casesen>>, FALSE),
                get_colname(cols, templt, casesen))

InitCol ==
  /\ fptr = [h \in Handles |-> "fptr"]
  /\ hdus = [h \in Handles |-> IF h \in NavHandles THEN <<PrimaryHdu>> ELSE <<>>]
  /\ curhdu = [h \in Handles |-> 1]
  /\ maxhdu = [h \in Handles |-> IF h \in NavHandles THEN 1 ELSE 0]
  /\ nrelease = [h \in Handles |-> 0]
  /\ freed = [h \in Handles |-> FALSE]
  /\ call = Call("open_file", 1, <<>>, FALSE)
  /\ ret = NoRet
  /\ err = NoErr
  /\ reached = TRUE
  /\ libstatus = 0
  /\ reported = FALSE
  /\ pre = [num |-> 0, cur |-> 0, fptr |-> NULL]
  /\ header = <<>>
  /\ comm = NoRet
  /\ tok = <<>>
  /\ ctext = <<>>
  /\ unit = NoRet
  /\ img = <<>>
  /\ cols \in Tables
  /\ data = NoData
  /\ nullv = NoRet
  /\ rd = NoRead

NextCol == Y_fitsio_get_colnum \/ Y_fitsio_get_colname

SpecCol == InitCol /\ [][NextCol]_vars

(* ------------------------------------------------------------------ *)
(* Reads of typed data: fitsio_read_col on a column of the table of    *)
(* the current HDU, fitsio_read_img on images of every pixel type.     *)
(* ------------------------------------------------------------------ *)
MaxRows == 2

\* the sizes of a long in the builds considered
SizeofLongs == {4, 8}

\* the equivalent column types (fits_get_eqcoltype)
ColTypes ==
  {"TBIT", "TSTRING", "TBYTE", "TLOGICAL", "TSBYTE", "TSHORT", "TUSHORT", "TINT",
   "TUINT", "TULONG", "TLONG", "TLONGLONG", "TULONGLONG", "TFLOAT", "TDOUBLE",
   "TCOMPLEX", "TDBLCOMPLEX"}

\* the dimensions of a cell (TDIMn); strings have 2 characters
TDims == {<<1>>, <<2>>, <<2, 3>>}

\* a cell with as many dimensions as a dimension list can hold less one
DeepCell == [k \in 1..(Y_DIMSIZE - 1) |-> 1]

Columns ==
  {Column(t, FALSE, 2, d, n, sl) :
     t \in ColTypes, d \in TDims, n \in 0..MaxRows, sl \in SizeofLongs}
    \cup {Column("TLONG", TRUE, 2, <<1>>, MaxRows, 8),
          Column("TDOUBLE", FALSE, 2, DeepCell, MaxRows, 8)}

\* the equivalent pixel types (fits_get_img_equivtype)
BitPixs ==
  {"BYTE_IMG", "SBYTE_IMG", "SHORT_IMG", "USHORT_IMG", "LONG_IMG", "ULONG_IMG",
   "LONGLONG_IMG", "ULONGLONG_IMG", "FLOAT_IMG", "DOUBLE_IMG"}

TypedImages == {ImageData(b, sl) : b \in BitPixs, sl \in SizeofLongs}

\* the rows given to fitsio_read_col
Rows == 0..(MaxRows + 1)

\* fitsio_read_col(fh, col, firstrow, lastrow, null=) on handle 1 with pos
\* positional arguments; an argument that is not given leaves -1.
Y_fitsio_read_col ==
  /\ call.op = "open_file"
  /\ data.kind = "column"
  /\ \E pos \in 2..4, nullreq \in BOOLEAN, anynull \in BOOLEAN :
       \E firstrow \in (IF pos < 3 THEN {0 - 1} ELSE Rows),
          lastrow \in (IF pos < 4 THEN {0 - 1} ELSE Rows) :
         LET o == read_col(data, pos, firstrow, lastrow, nullreq, anynull)
         IN  /\ call' = Call("read_col", 1, <<pos, firstrow, lastrow, nullreq>>, FALSE)
             /\ ret' = o.ret
             /\ err' = o.err
             /\ reached' = o.reached
             /\ rd' = o.rd
             /\ nullv' = o.nullv
  /\ UNCHANGED <<fptr, hdus, curhdu, maxhdu, nrelease, freed, libstatus,
                 reported, pre, header, comm, tok, ctext, unit, img, cols, data>>

\* the selections of the reads of typed images: the whole image, or an
\* interval of one or two elements from the first or the second one
TypedReadArgs(mode) ==
  IF mode = 9
  THEN {<<ImgArg("Y_LONG", 0, <<f>>), Absent, Absent, ImgArg("Y_LONG", 0, <<n>>)>> :
          f \in 1..2, n \in 1..2}
  ELSE ReadArgs(mode)

\* The call with or without keyword NULL on an image of any pixel type, with
\* or without undefined pixels.
Y_fitsio_read_img_null ==
  /\ call.op = "open_file"
  /\ data.kind = "image"
  /\ \E mode \in {0, 9}, nullreq \in BOOLEAN, anynull \in BOOLEAN :
       \E a \in TypedReadArgs(mode), g \in ImageCounts(img) :
         ReadImgCall(mode, a, FALSE, g, nullreq, anynull)

InitRead ==
  /\ fptr = [h \in Handles |-> "fptr"]
  /\ hdus = [h \in Handles |-> IF h \in NavHandles THEN <<PrimaryHdu>> ELSE <<>>]
  /\ curhdu = [h \in Handles |-> 1]
  /\ maxhdu = [h \in Handles |-> IF h \in NavHandles THEN 1 ELSE 0]
  /\ nrelease = [h \in Handles |-> 0]
  /\ freed = [h \in Handles |-> FALSE]
  /\ call = Call("open_file", 1, <<>>, FALSE)
  /\ ret = NoRet
  /\ err = NoErr
  /\ reached = TRUE
  /\ libstatus = 0
  /\ reported = FALSE
  /\ pre = [num |-> 0, cur |-> 0, fptr |-> NULL]
  /\ header = <<>>
  /\ comm = NoRet
  /\ tok = <<>>
  /\ ctext = <<>>
  /\ unit = NoRet
  /\ cols = <<>>
  /\ \/ data \in Columns /\ img = <<>>
     \/ data \in TypedImages /\ img \in {<<>>, <<2>>, <<1, 2>>}
  /\ nullv = NoRet
  /\ rd = NoRead

NextRead == Y_fitsio_read_col \/ Y_fitsio_read_img_null

SpecRead == InitRead /\ [][NextRead]_vars

(* ------------------------------------------------------------------ *)
(* Writes: fitsio_write_col on a column, fitsio_write_img on an image. *)
(* ------------------------------------------------------------------ *)
ColDims == {<<>>, <<2>>, <<3>>, <<2, 3>>, <<3, 2>>, <<2, 3, 2>>, <<2, 3, 2, 2>>}

ColSources ==
  {SrcArr("Y_LONG", d) : d \in ColDims}
    \cup {SrcArr("Y_STRING", d) : d \in {<<>>, <<3>>, <<3, 2>>}}
    \cup {SrcArr("Y_POINTER", <<2>>)}

\* the first row given to fitsio_write_col
FirstRows == 0..MaxRows

\* fitsio_write_col(fh, col, arr, firstrow, null=) on handle 1
Y_fitsio_write_col ==
  /\ call.op = "open_file"
  /\ data.kind = "column"
  /\ \E src \in ColSources, firstrow \in FirstRows, null \in NullArgs :
       LET o == write_col(data, src, firstrow, null)
       IN  /\ call' = Call("write_col", 1, <<src, firstrow, null>>, FALSE)
           /\ ret' = o.ret
           /\ err' = o.err
           /\ reached' = o.reached
  /\ UNCHANGED <<fptr, hdus, curhdu, maxhdu, nrelease, freed, libstatus,
                 reported, pre, header, comm, tok, ctext, unit, img, cols, data, nullv, rd>>

InitWrite ==
  /\ fptr = [h \in Handles |-> "fptr"]
  /\ hdus = [h \in Handles |-> IF h \in NavHandles THEN <<PrimaryHdu>> ELSE <<>>]
  /\ curhdu = [h \in Handles |-> 1]
  /\ maxhdu = [h \in Handles |-> IF h \in NavHandles THEN 1 ELSE 0]
  /\ nrelease = [h \in Handles |-> 0]
  /\ freed = [h \in Handles |-> FALSE]
  /\ call = Call("open_file", 1, <<>>, FALSE)
  /\ ret = NoRet
  /\ err = NoErr
  /\ reached = TRUE
  /\ libstatus = 0
  /\ reported = FALSE
  /\ pre = [num |-> 0, cur |-> 0, fptr |-> NULL]
  /\ header = <<>>
  /\ comm = NoRet
  /\ tok = <<>>
  /\ ctext = <<>>
  /\ unit = NoRet
  /\ cols = <<>>
  /\ \/ data \in {c \in Columns : c.sizeof_long = 8} /\ img = <<>>
     \/ data = ImageData("LONG_IMG", 8) /\ img \in Images
  /\ nullv = NoRet
  /\ rd = NoRead

NextWrite == Y_fitsio_write_col \/ Y_fitsio_write_img

SpecWrite == InitWrite /\ [][NextWrite]_vars

(* ------------------------------------------------------------------ *)
(* Tables: fitsio_create_tbl.  An int has half the bits of a long.     *)
(* ------------------------------------------------------------------ *)
INT_MAX == Pow(2, LongBits \div 2 - 1) - 1
INT_MIN == 0 - Pow(2, LongBits \div 2 - 1)

\* An argument after the handle: a positional array of strings, keyword
\* TUNIT with an array of strings, keyword ASCII or keyword EXTNAME; n is
\* the number of elements of the array and rank its number of dimensions.
TblArg(k, n, rank) == [k |-> k, n |-> n, rank |-> rank]

\* The locals of Y_fitsio_create_tbl while it goes through its arguments:
\* tfields, ntot, whether ttype and tform are set, the error raised.
TblState(tfields, ntot, ttype, tform, e) ==
  [tfields |-> tfields, ntot |-> ntot, ttype |-> ttype, tform |-> tform, err |-> e]

\* check_ncols(&tfields, ntot)
check_ncols(st, ntot) ==
  IF st.tfields > 0
  THEN (IF st.tfields # ntot
        THEN [st EXCEPT !.ntot = ntot, !.err = YError("number of columns mismatch")]
        ELSE [st EXCEPT !.ntot = ntot])
  ELSE IF ntot > INT_MAX \/ ntot < INT_MIN
  THEN [st EXCEPT !.ntot = ntot, !.err = YError("too many columns (integer overflow)")]
  ELSE [st EXCEPT !.ntot = ntot, !.tfields = ntot]

\* an array of strings for the argument called name
tbl_array(st, a, name) ==
  IF a.rank > 1
  THEN [st EXCEPT !.ntot = a.n,
                  !.err = YError("too many dimensions for argument " \o name)]
  ELSE check_ncols(st, a.n)

\* one turn of the loop on the arguments
tbl_arg(st, a) ==
  IF a.k = "pos"
  THEN (IF ~st.ttype THEN [tbl_array(st, a, "TTYPE") EXCEPT !.ttype = TRUE]
        ELSE IF ~st.tform THEN [tbl_array(st, a, "TFORM") EXCEPT !.tform = TRUE]
        ELSE [st EXCEPT !.err = YError("too many arguments")])
  ELSE IF a.k = "extname" THEN st
  ELSE IF a.k = "tunit" THEN tbl_array(st, a, "TUNIT")
  ELSE IF a.k = "ascii" THEN check_ncols(st, st.ntot)
  ELSE [st EXCEPT !.err = YError("unsupported keyword")]

\* the loop on the arguments, which the first error ends
RECURSIVE tbl_args(_, _)
tbl_args(st, items) ==
  IF items = <<>> \/ st.err # NoErr THEN st
  ELSE tbl_args(tbl_arg(st, Head(items)), Tail(items))

\* What the call gives: error, value pushed, fits_create_tbl called, and
\* the number of columns it was called with.
TblOutcome(e, r, rch, tfields) ==
  [err |-> e, ret |-> r, reached |-> rch, tfields |-> tfields]

tbl_create(st) ==
  IF st.err # NoErr THEN TblOutcome(st.err, NoRet, FALSE, 0)
  ELSE IF ~st.tform THEN TblOutcome(YError("too few arguments"), NoRet, FALSE, 0)
  ELSE TblOutcome(NoErr, Nil, TRUE, st.tfields)

\* Y_fitsio_create_tbl for the arguments that follow the handle; ntot is not
\* initialised, g is what it holds when the loop starts.
create_tbl(items, g) ==
  tbl_create(tbl_args(TblState(0 - 1, g, FALSE, FALSE, NoErr), items))

\* the names of the columns of a table created with n columns
NewCols(n) == [k \in 1..n |-> <<"C">>]

TblArgs ==
  {TblArg(k, n, 1) : k \in {"pos", "tunit"}, n \in 1..MaxCols}
    \cup {TblArg("pos", 4, 2), TblArg("ascii", 0, 0), TblArg("extname", 0, 0),
          TblArg("other", 0, 0)}

\* the number of arguments after the handle
MaxArgs == 4

\* what an uninitialised long can hold
Garbage == {LONG_MIN, 0 - 1, 0, 1, 2, LONG_MAX}

\* the arguments read ntot before any array has set it
ReadsGarbage(items) ==
  \E i \in 1..Len(items) :
    /\ items[i].k = "ascii"
    /\ \A j \in 1..(i - 1) : items[j].k \notin {"pos", "tunit"}

\* fitsio_create_tbl(fh, ttype, tform, tunit=, extname=, ascii=) on handle 1
Y_fitsio_create_tbl ==
  /\ call.op = "open_file"
  /\ \E items \in SeqsUpTo(TblArgs, MaxArgs) :
       \E g \in (IF ReadsGarbage(items) THEN Garbage ELSE {0}) :
         LET o == create_tbl(items, g)
         IN  /\ call' = Call("create_tbl", 1, items, FALSE)
             /\ ret' = o.ret
             /\ err' = o.err
             /\ reached' = o.reached
             /\ cols' = IF o.reached THEN NewCols(o.tfields) ELSE cols
  /\ UNCHANGED <<fptr, hdus, curhdu, maxhdu, nrelease, freed, libstatus,
                 reported, pre, header, comm, tok, ctext, unit, img, data, nullv, rd>>

InitTbl ==
  /\ fptr = [h \in Handles |-> "fptr"]
  /\ hdus = [h \in Handles |-> IF h \in NavHandles THEN <<PrimaryHdu>> ELSE <<>>]
  /\ curhdu = [h \in Handles |-> 1]
  /\ maxhdu = [h \in Handles |-> IF h \in NavHandles THEN 1 ELSE 0]
  /\ nrelease = [h \in Handles |-> 0]
  /\ freed = [h \in Handles |-> FALSE]
  /\ call = Call("open_file", 1, <<>>, FALSE)
  /\ ret = NoRet
  /\ err = NoErr
  /\ reached = TRUE
  /\ libstatus = 0
  /\ reported = FALSE
  /\ pre = [num |-> 0, cur |-> 0, fptr |-> NULL]
  /\ header = <<>>
  /\ comm = NoRet
  /\ tok = <<>>
  /\ ctext = <<>>
  /\ unit = NoRet
  /\ img = <<>>
  /\ cols = <<>>
  /\ data = NoData
  /\ nullv = NoRet
  /\ rd = NoRead

NextTbl == Y_fitsio_create_tbl

SpecTbl == InitTbl /\ [][NextTbl]_vars

(* ------------------------------------------------------------------ *)
(* Checksums: fitsio_encode_chksum and fitsio_decode_chksum.  A text   *)
(* is the sequence of the codes of its characters, an unsigned 32-bit  *)
(* sum the sequence of its four bytes, the most significant first.     *)
(* ------------------------------------------------------------------ *)
\* 0xFFFFFFFF - sum
Complement(sum) == [k \in 1..4 |-> 255 - sum[k]]

\* the codes of the punctuation characters an encoded checksum avoids
Exclude == (58..64) \cup (91..96)

\* (value & mask[ii]) >> (24 - 8 * ii)
ByteOf(value, ii) == value[ii + 1]

\* ch[jj]++, ch[jj+1]-- as long as one of the two is a punctuation character
RECURSIVE AvoidPunctuation(_)
AvoidPunctuation(p) ==
  IF p[1] \in Exclude \/ p[2] \in Exclude
  THEN AvoidPunctuation(<<p[1] + 1, p[2] - 1>>)
  ELSE p

\* the four characters ch[0..3] for a byte
ByteChars(byte) ==
  AvoidPunctuation(<<(byte \div 4) + 48 + (byte % 4), (byte \div 4) + 48>>)
    \o AvoidPunctuation(<<(byte \div 4) + 48, (byte \div 4) + 48>>)

\* asc[4 * jj + ii] = ch[jj] of byte ii, for the index k = 4 * jj + ii
Interleaved(value) ==
  [k \in 0..15 |-> ByteChars(ByteOf(value, k % 4))[(k \div 4) + 1]]

\* fits_encode_chksum: the characters shifted by one to the right
ffesum(sum, complm) ==
  [i \in 1..16 |->
     Interleaved(IF complm THEN Complement(sum) ELSE sum)[(i - 1 + 15) % 16]]

\* Variant: the characters are taken as they come, without the shift.
Unshifted_InPlace(ascii) == [ii \in 0..15 |-> ascii[ii + 1] - 48]

\* cbuf[ii] = ascii[(ii + 1) % 16] - 0x30
Unshifted(ascii) == [ii \in 0..15 |-> ascii[((ii + 1) % 16) + 1] - 48]

\* hi (k = 0) or lo (k = 2): the sum over the four groups of
\* (cbuf[ii + k] << 8) + cbuf[ii + k + 1]
HalfSum(cbuf, k) ==
  LET T(ii) == cbuf[ii + k] * 256 + cbuf[ii + k + 1]
  IN  T(0) + T(4) + T(8) + T(12)

\* the end-around carries of the two halves
RECURSIVE Carried(_, _)
Carried(hi, lo) ==
  IF hi \div 65536 = 0 /\ lo \div 65536 = 0 THEN <<hi, lo>>
  ELSE Carried((hi % 65536) + (lo \div 65536), (lo % 65536) + (hi \div 65536))

\* (hi << 16) + lo
Word(hi, lo) == <<hi \div 256, hi % 256, lo \div 256, lo % 256>>

\* fits_decode_chksum for a text of 16 characters
ffdsum(ascii, complm) ==
  LET h == Carried(HalfSum(Unshifted(ascii), 0), HalfSum(Unshifted(ascii), 2))
  IN  IF complm THEN Complement(Word(h[1], h[2])) ELSE Word(h[1], h[2])

SumOutcome(e, r) == [err |-> e, ret |-> r]

\* Y_fitsio_encode_chksum(argc)
encode_chksum(argc, sum, compl) ==
  IF argc = 1 THEN SumOutcome(NoErr, StrVal(ffesum(sum, FALSE)))
  ELSE IF argc = 2 THEN SumOutcome(NoErr, StrVal(ffesum(sum, compl)))
  ELSE SumOutcome(YError("expecting 1 or 2 argument"), NoRet)

\* Y_fitsio_decode_chksum(argc); isnull: the argument is the null string
decode_chksum(argc, isnull, ascii, compl) ==
  IF argc # 1 /\ argc # 2 THEN SumOutcome(YError("expecting 1 or 2 argument"), NoRet)
  ELSE IF isnull \/ Len(ascii) # 16
  THEN SumOutcome(YError("length of checksum string should be exactly 16 characters"),
                  NoRet)
  ELSE SumOutcome(NoErr, LongVal(ffdsum(ascii, argc = 2 /\ compl)))

\* the bytes of the sums given to fitsio_encode_chksum
ByteSamples == {0, 40, 129, 172, 255}

Sums == {<<a, b, c, d>> : a \in ByteSamples, b \in ByteSamples, c \in ByteSamples, d \in ByteSamples}

\* texts that are not the result of an encoding: up to 18 characters 0
OtherTexts == {[i \in 1..n |-> 48] : n \in 0..18}

\* fitsio_encode_chksum(sum, compl)
Y_fitsio_encode_chksum ==
  /\ call.op = "open_file"
  /\ \E argc \in 1..3, sum \in Sums, compl \in BOOLEAN :
       LET o == encode_chksum(argc, sum, compl)
       IN  /\ call' = Call("encode_chksum", 1, <<sum, argc = 2 /\ compl, argc>>, FALSE)
           /\ ret' = o.ret
           /\ err' = o.err
  /\ reached' = FALSE
  /\ UNCHANGED <<fptr, hdus, curhdu, maxhdu, nrelease, freed, libstatus, reported,
                 pre, header, comm, tok, ctext, unit, img, cols, data, nullv, rd>>

\* fitsio_decode_chksum(ascii, compl), for the text the last call of
\* fitsio_encode_chksum gave or for another text
Y_fitsio_decode_chksum ==
  /\ call.op \in {"open_file", "encode_chksum"}
  /\ \E argc \in 1..3, compl \in BOOLEAN, isnull \in BOOLEAN :
       \E ascii \in (IF isnull THEN {<<>>}
                     ELSE IF ret.t = "string" THEN {ret.v} ELSE OtherTexts) :
         LET o == decode_chksum(argc, isnull, ascii, compl)
         IN  /\ call' = Call("decode_chksum", 1,
                             <<ascii, argc = 2 /\ compl, argc, isnull>>, FALSE)
             /\ ret' = o.ret
             /\ err' = o.err
  /\ reached' = FALSE
  /\ UNCHANGED <<fptr, hdus, curhdu, maxhdu, nrelease, freed, libstatus, reported,
                 pre, header, comm, tok, ctext, unit, img, cols, data, nullv, rd>>

InitSum ==
  /\ fptr = [h \in Handles |-> "fptr"]
  /\ hdus = [h \in Handles |-> IF h \in NavHandles THEN <<PrimaryHdu>> ELSE <<>>]
  /\ curhdu = [h \in Handles |-> 1]
  /\ maxhdu = [h \in Handles |-> IF h \in NavHandles THEN 1 ELSE 0]
  /\ nrelease = [h \in Handles |-> 0]
  /\ freed = [h \in Handles |-> FALSE]
  /\ call = Call("open_file", 1, <<>>, FALSE)
  /\ ret = NoRet
  /\ err = NoErr
  /\ reached = TRUE
  /\ libstatus = 0
  /\ reported = FALSE
  /\ pre = [num |-> 0, cur |-> 0, fptr |-> NULL]
  /\ header = <<>>
  /\ comm = NoRet
  /\ tok = <<>>
  /\ ctext = <<>>
  /\ unit = NoRet
  /\ img = <<>>
  /\ cols = <<>>
  /\ data = NoData
  /\ nullv = NoRet
  /\ rd = NoRead

NextSum == Y_fitsio_encode_chksum \/ Y_fitsio_decode_chksum

SpecSum == InitSum /\ [][NextSum]_vars






(* ================================================================== *)
(* Properties of the file handle.                                      *)
(* ================================================================== *)
ReleaseOps == {"close_file", "delete_file", "yfits_free"}

\* The handles the last built-in was given.
CallHandles == IF call.op = "copy_hdu" THEN {call.h, call.arg[1]} ELSE {call.h}

\* A handle given to the last built-in was closed when it was called.
OnClosed ==
  IF call.op \in ReleaseOps THEN pre.fptr = NULL
  ELSE \E h \in CallHandles : fptr[h] = NULL

\* The last built-in raised the closed-file error without calling the library.
Rejected == err = YError(ClosedMsg) /\ ret = NoRet /\ ~reached

\* C1 as stated: on a closed handle every built-in but a close (explicit or
\* by the finalizer) is rejected with "FITS file has been closed" and never
\* reaches the library.
C1_AllRejectedWhenClosed ==
  (OnClosed /\ call.op \notin {"close_file", "yfits_free"}) => Rejected

\* The built-ins that fetch the handle with MAY_BE_CLOSED and answer for a
\* closed handle.
ClosedQueries ==
  {"is_open", "get_num_hdus", "get_hdu_num", "file_name", "file_mode", "url_type"}

\* C1 amended: on a closed handle every built-in that needs an open file
\* (HDU navigation, get_hdu_type, delete_hdu, copy_hdu, keyword, image, table
\* and checksum built-ins, delete_file) is rejected with "FITS file has been
\* closed" and never reaches the library; is_open, get_num_hdus and
\* get_hdu_num answer 0 and file_name, file_mode and url_type answer nil,
\* without an error and without reaching the library.
C1_ClosedRejectedOrAnswered ==
  OnClosed =>
    CASE call.op \in {"close_file", "yfits_free"} -> err = NoErr /\ ~reached
      [] call.op \in {"is_open", "get_num_hdus", "get_hdu_num"} ->
           err = NoErr /\ ~reached /\ ret = IntVal(0)
      [] call.op \in {"file_name", "file_mode", "url_type"} ->
           err = NoErr /\ ~reached /\ ret = Nil
      [] OTHER -> Rejected

\* A move on a closed handle was rejected.
C1_Witness == call.op = "movabs_hdu" /\ OnClosed /\ Rejected

\* C2: the library releases the file of a handle at most once, the handle
\* is closed as soon as a release has been attempted, and a close_file or a
\* finalizer run on a closed handle raises nothing, reports nothing and does
\* not call the library.
C2_ReleasedAtMostOnce ==
  /\ \A h \in Handles : nrelease[h] <= 1 /\ (nrelease[h] = 1 => fptr[h] = NULL)
  /\ (call.op \in {"close_file", "yfits_free"} /\ pre.fptr = NULL) =>
       (err = NoErr /\ ~reached /\ ~reported /\ nrelease[call.h] = 1)

\* The finalizer ran on a handle that had been closed before.
C2_Witness == call.op = "yfits_free" /\ pre.fptr = NULL /\ nrelease[call.h] = 1

\* C3: when the library fails to release the file, close_file raises the
\* library's error while the finalizer raises nothing and prints a report;
\* in both cases the handle is closed.
C3_CloseAsymmetry ==
  (reached /\ libstatus # 0) =>
    /\ call.op = "close_file" => (err = FitsError(libstatus) /\ fptr[call.h] = NULL)
    /\ call.op = "yfits_free" => (err = NoErr /\ reported /\ fptr[call.h] = NULL)

\* The finalizer met a failing release.
C3_Witness ==
  call.op = "yfits_free" /\ reached /\ libstatus # 0 /\ reported /\ fptr[call.h] = NULL

\* C4: a closed handle stays closed whatever is called next (is_open answers
\* false), every close_file leaves the handle closed, every delete_file of an
\* open handle leaves it closed, and close_file can be called on a handle in
\* any state.
C4_ClosedIsTerminal ==
  /\ [](\A h \in Handles : ~freed[h] => ENABLED CloseHandle(h))
  /\ [][ /\ \A h \in Handles : fptr[h] = NULL => fptr'[h] = NULL
         /\ call'.op = "close_file" => fptr'[call'.h] = NULL
         /\ (call'.op = "delete_file" /\ fptr[call'.h] # NULL) => fptr'[call'.h] = NULL
         /\ (call'.op = "is_open" /\ fptr[call'.h] = NULL) => ret' = IntVal(FALSE_INT)
       ]_vars

\* A handle was closed while its current HDU was not the first one.
C4_Witness ==
  call.op = "close_file" /\ pre.fptr # NULL /\ pre.cur > 1 /\ fptr[call.h] = NULL

(* ================================================================== *)
(* Properties of the HDU navigation.                                   *)
(* ================================================================== *)
MoveOps == {"movabs_hdu", "movrel_hdu", "movnam_hdu"}

\* The last built-in, a move, raised an error or pushed the type -1.
MoveFailed == err # NoErr \/ ret = IntVal(0 - 1)

\* C5 as stated: movabs_hdu(n) on an open handle succeeds with the type of
\* HDU n when n is in 1..count; for every other n it pushes -1 without an
\* error when called as a function and raises an error when called as a
\* subroutine.
C5_MovabsProbeAndStrict ==
  (call.op = "movabs_hdu" /\ pre.fptr # NULL) =>
    LET n == call.arg[1]
    IN  IF n \in 1..pre.num
        THEN err = NoErr /\ ret = IntVal(hdus[call.h][n].type)
        ELSE IF call.sub THEN err # NoErr
        ELSE err = NoErr /\ ret = IntVal(0 - 1)

\* C6 as stated: a failed movabs_hdu, movrel_hdu or movnam_hdu leaves the
\* current HDU number as it was before the call.
C6_FailedMoveKeepsPosition ==
  (call.op \in MoveOps /\ pre.fptr # NULL /\ MoveFailed) => curhdu[call.h] = pre.cur

\* C7 as stated: on an open handle, for every offset and both calling modes,
\* movrel_hdu(offset) and movabs_hdu(current + offset) have the same outcome
\* (error raised, value pushed, resulting position).
C7_MovrelIsMovabs ==
  \A h \in NavHandles : fptr[h] # NULL =>
    \A k \in MoveOffsets, sub \in BOOLEAN :
      movrel_hdu(h, k, sub) = movabs_hdu(h, curhdu[h] + k, sub)

\* C8 as stated: delete_hdu lowers the HDU count by one, the current HDU
\* becomes the one that followed the deleted HDU, or HDU 1 when none
\* followed, and the type pushed is the type of the new current HDU.
C8_DeleteThenFollowingOrPrimary ==
  (call.op = "delete_hdu" /\ err = NoErr) =>
    /\ Len(hdus[call.h]) = pre.num - 1
    /\ curhdu[call.h] = (IF pre.cur < pre.num THEN pre.cur ELSE 1)
    /\ ret = IntVal(hdus[call.h][curhdu[call.h]].type)

\* C8 amended: delete_hdu on an HDU other than the primary one removes it and
\* moves the following HDUs up by one (the count drops by one); the current
\* HDU becomes the one that followed or, when none followed, the previous
\* one.  delete_hdu on the primary HDU replaces it by an empty primary array:
\* count and position are unchanged.  The type pushed is the type of the new
\* current HDU.
C8_DeleteThenFollowingOrPrevious ==
  [][ (call'.op = "delete_hdu" /\ err' = NoErr) =>
        LET h == call'.h
            c == curhdu[h]
            n == Len(hdus[h])
        IN  IF c = 1
            THEN /\ Len(hdus'[h]) = n
                 /\ \A k \in 2..n : hdus'[h][k] = hdus[h][k]
                 /\ hdus'[h][1].type = IMAGE_HDU
                 /\ curhdu'[h] = 1
                 /\ ret' = IntVal(IMAGE_HDU)
            ELSE /\ Len(hdus'[h]) = n - 1
                 /\ \A k \in 1..(c - 1) : hdus'[h][k] = hdus[h][k]
                 /\ \A k \in c..(n - 1) : hdus'[h][k] = hdus[h][k + 1]
                 /\ curhdu'[h] = (IF c < n THEN c ELSE c - 1)
                 /\ ret' = IntVal(hdus'[h][curhdu'[h]].type)
    ]_vars

\* The last of three or more HDUs was deleted and the previous one is current.
C8_Witness ==
  /\ call.op = "delete_hdu" /\ err = NoErr
  /\ pre.cur = pre.num /\ pre.num >= 3
  /\ curhdu[call.h] = pre.cur - 1
  /\ ret = IntVal(BINARY_TBL)

\* C9 as stated: for every open handle, the number get_hdu_num reports lies
\* between 1 and the count get_num_hdus reports.
C9_CurrentInRange ==
  \A h \in Handles : fptr[h] # NULL =>
    LET p == get_hdu_num(h)
        n == get_num_hdus(h)
    IN  /\ p.err = NoErr /\ n.err = NoErr
        /\ 1 <= p.ret.v /\ p.ret.v <= n.ret.v

\* C9 amended: for every open handle whose file holds an HDU (a file that
\* was opened, or a created file after a copy_hdu into it), the number
\* get_hdu_num reports lies between 1 and the count get_num_hdus reports; for
\* a created file that is still empty get_hdu_num reports 1 and get_num_hdus
\* reports 0.  A file that holds an HDU keeps holding one while it is open.
C9_CurrentInRangeUnlessEmpty ==
  /\ [](\A h \in Handles : fptr[h] # NULL =>
         LET p == get_hdu_num(h)
             n == get_num_hdus(h)
         IN  /\ p.err = NoErr /\ n.err = NoErr
             /\ IF hdus[h] # <<>>
                THEN 1 <= p.ret.v /\ p.ret.v <= n.ret.v
                ELSE h \notin NavHandles /\ p.ret.v = 1 /\ n.ret.v = 0)
  /\ [][\A h \in Handles :
          (hdus[h] # <<>> /\ fptr'[h] # NULL) => hdus'[h] # <<>>]_vars

\* A second HDU was copied into the created file, after the last HDU of the
\* opened file was deleted.
C9_Witness ==
  /\ call.op = "copy_hdu" /\ call.arg = <<2>> /\ err = NoErr
  /\ Len(hdus[2]) = 2 /\ curhdu[2] = 2
  /\ Len(hdus[1]) = 1 /\ fptr[1] # NULL

(* ================================================================== *)
(* Properties of the keyword cards.                                    *)
(* ================================================================== *)
\* The last built-in wrote or updated a keyword with a scalar char value.
WroteChar ==
  /\ call.op \in {"write_key", "update_key"}
  /\ call.arg[1].type = "Y_STRING"
  /\ call.arg[2].type = "Y_CHAR" /\ call.arg[2].rank = 0

\* C10 as stated: after write_key or update_key with a char value, 'T' or
\* 't' is stored as T and read back as true, 'F' or 'f' is stored as F and
\* read back as false, and any other char raises an error.
C10_LogicalPreserved ==
  WroteChar =>
    LET key == call.arg[1].s
        l == call.arg[2].l
        i == FindCard(header, key)
        back == read_key(call.h, key)
    IN  IF l \in {Ord("T"), Ord("t")}
        THEN /\ err = NoErr /\ i > 0 /\ header[i].value = <<"T">>
             /\ back.ret = IntVal(TRUE_INT)
        ELSE IF l \in {Ord("F"), Ord("f")}
        THEN /\ err = NoErr /\ i > 0 /\ header[i].value = <<"F">>
             /\ back.ret = IntVal(FALSE_INT)
        ELSE err # NoErr

\* The last built-in wrote or updated a keyword and raised no error.
WroteKey ==
  /\ call.op \in {"write_key", "update_key"}
  /\ err = NoErr

\* The value read_key is to give back for the value argument v of a write.
Supplied(v) ==
  CASE v.type = "Y_CHAR" ->
         IntVal(IF v.l \in {Ord("T"), Ord("t")} THEN TRUE_INT ELSE FALSE_INT)
    [] v.type \in IntegerTypes \ {"Y_CHAR"} -> LongVal(v.l)
    [] v.type \in {"Y_FLOAT", "Y_DOUBLE"} -> DoubleVal(v.d)
    [] v.type = "Y_COMPLEX" -> ComplexVal(v.d, v.im)
    [] v.type = "Y_STRING" -> StrVal(v.s)
    [] OTHER -> StrVal(NullString)

SameValue(a, b) == a.t = b.t /\ a.v = b.v

\* C11 as stated: after write_key or update_key with (keyword, value,
\* comment), read_key on the keyword gives back the value supplied and, when
\* a comment was passed as the last argument, the comment supplied.  (Stated
\* here for the values that are not of type char, whose round trip is C10.)
C11_RoundTrip ==
  (WroteKey /\ call.arg[2].type # "Y_CHAR") =>
    LET back == read_key(call.h, call.arg[1].s)
    IN  /\ back.err = NoErr
        /\ SameValue(back.ret, Supplied(call.arg[2]))
        /\ (call.arg[4] = 4 /\ call.arg[3].type = "Y_STRING")
             => back.comm = StrVal(call.arg[3].s)

(* ================================================================== *)
(* Properties of the decoding of value texts.                          *)
(* ================================================================== *)
\* Decimal notation, stated on the text as a whole.
IsDigitStr(s) == s # <<>> /\ \A i \in 1..Len(s) : s[i] \in Digits

Unsigned(s) == IF At(s, 1) \in {"+", "-"} THEN SubSeq(s, 2, Len(s)) ELSE s

IsIntegerText(s) == IsDigitStr(Unsigned(s))

IsMantissa(m) ==
  \/ IsDigitStr(m)
  \/ \E k \in 1..Len(m) :
       /\ m[k] = "."
       /\ \A i \in 1..Len(m) : i # k => m[i] \in Digits
       /\ Len(m) > 1

\* exps: the letters that may introduce the exponent
IsRealText(s, exps) ==
  LET u == Unsigned(s)
  IN  \/ IsMantissa(u)
      \/ \E k \in 1..Len(u) :
           /\ u[k] \in exps
           /\ IsMantissa(SubSeq(u, 1, k - 1))
           /\ IsIntegerText(SubSeq(u, k + 1, Len(u)))

HasMarker(s) == \E i \in 1..Len(s) : s[i] \in {".", "E", "e", "D", "d"}

\* get_value was applied to a trimmed, non-empty value text.
GotValueOf ==
  /\ call.op = "get_value"
  /\ tok # NullString /\ tok # <<>>
  /\ tok[1] # " " /\ tok[Len(tok)] # " "

\* C12 as stated: a trimmed text that does not start with T, t, F, f, an
\* apostrophe or a parenthesis is decoded as a real when it holds one of
\* . E e D d and is a number in decimal notation (D standing for E), as an
\* integer when it holds none of them and is a decimal integer, and raises
\* "invalid keyword value" in every other case; 1.0D5 gives 1.0e5.
C12_InferNumber ==
  (GotValueOf /\ tok[1] \notin {"T", "t", "F", "f", "'", "("}) =>
    /\ IF HasMarker(tok)
       THEN IF IsRealText(tok, {"E", "e", "D", "d"})
            THEN err = NoErr /\ ret.t = "double"
            ELSE err = YError("invalid keyword value") /\ ret = NoRet
       ELSE IF IsIntegerText(tok)
            THEN err = NoErr /\ ret.t = "long"
            ELSE err = YError("invalid keyword value") /\ ret = NoRet
    /\ tok = <<"1", ".", "0", "D", "5">> => ret = DoubleVal(Dec(1, 5))

IsNumberText(s) == IsIntegerText(s) \/ IsRealText(s, {"E", "e"})

\* ( re , im ): two numbers, a comma between them, spaces allowed around
\* them, a closing parenthesis at the end.
IsComplexText(t) ==
  /\ Len(t) >= 2 /\ t[1] = "(" /\ t[Len(t)] = ")"
  /\ \E k \in 2..(Len(t) - 1) :
       /\ t[k] = ","
       /\ IsNumberText(trim_string(SubSeq(t, 2, k - 1)))
       /\ IsNumberText(trim_string(SubSeq(t, k + 1, Len(t) - 1)))

\* C13 as stated: a text that starts with a parenthesis is decoded as a
\* complex when the whole of it has the form ( re , im ), and raises "invalid
\* keyword value" in every other case.
C13_InferComplex ==
  (GotValueOf /\ tok[1] = "(") =>
    IF IsComplexText(tok)
    THEN err = NoErr /\ ret.t = "complex"
    ELSE err = YError("invalid keyword value") /\ ret = NoRet

(* ================================================================== *)
(* Properties of the unit of a comment.                                *)
(* ================================================================== *)
\* get_comment was applied with a variable for the unit.
GotUnitOf == call.op = "get_comment" /\ call.arg = <<2>> /\ ctext # NullString

\* Index of the opening bracket when t starts with one after spaces, else 0.
OpenAt(t) ==
  IF \E p \in 1..Len(t) : t[p] = "[" /\ \A i \in 1..(p - 1) : t[i] = " "
  THEN CHOOSE p \in 1..Len(t) : t[p] = "[" /\ \A i \in 1..(p - 1) : t[i] = " "
  ELSE 0

\* Index of the first closing bracket after index p, else 0.
CloseAfter(t, p) ==
  IF \E q \in (p + 1)..Len(t) : t[q] = "]"
  THEN CHOOSE q \in (p + 1)..Len(t) :
         t[q] = "]" /\ \A i \in (p + 1)..(q - 1) : t[i] # "]"
  ELSE 0

Bracketed(t) == OpenAt(t) > 0 /\ CloseAfter(t, OpenAt(t)) > 0

\* the text between the brackets, without the spaces around it
UnitText(t) ==
  trim_string(SubSeq(t, OpenAt(t) + 1, CloseAfter(t, OpenAt(t)) - 1))

\* the text after the closing bracket, without the spaces before it
RestText(t) ==
  LET q == CloseAfter(t, OpenAt(t))
  IN  SubSeq(t, SkipSpaces(t, q + 1), Len(t))

\* C14 as stated: a comment that starts with a bracketed text gives that
\* text, trimmed, as the unit and the text after the bracket, leading spaces
\* skipped, as the comment; whenever no unit is reported the comment given
\* back is the whole comment.
C14_ExtractUnit ==
  GotUnitOf =>
    /\ (Bracketed(ctext) /\ UnitText(ctext) # <<>>) =>
          unit = StrVal(UnitText(ctext)) /\ ret = StrVal(RestText(ctext))
    /\ unit = StrVal(NullString) => ret = StrVal(ctext)

\* C14 amended: a comment that starts with a bracketed text gives the text
\* after the bracket, leading spaces skipped, as the comment, and the text in
\* the brackets, trimmed, as the unit, or no unit when that text is empty or
\* blank; a comment without a leading bracket, or whose bracket is not
\* closed, gives no unit and the whole comment.
C14_ExtractUnitOrStrip ==
  GotUnitOf =>
    /\ err = NoErr
    /\ IF Bracketed(ctext)
       THEN /\ ret = StrVal(RestText(ctext))
            /\ unit = StrVal(IF UnitText(ctext) # <<>> THEN UnitText(ctext) ELSE NullString)
       ELSE unit = StrVal(NullString) /\ ret = StrVal(ctext)

\* Blank brackets before a word: no unit, and the word alone as the comment.
C14_Witness ==
  /\ GotUnitOf
  /\ ctext = <<"[", " ", "]", " ", "m">>
  /\ unit = StrVal(NullString)
  /\ ret = StrVal(<<"m">>)

(* ================================================================== *)
(* Properties of the image built-ins.                                  *)
(* ================================================================== *)
GotRead == call.op = "read_img"

LegalModes == {0, 3, 7, 9}

\* C15 as stated: a read with no keyword, with FIRST and NUMBER, or with
\* FIRST and LAST and possibly INCR is never refused for its combination of
\* keywords, and a read with any other combination of FIRST, LAST, INCR and
\* NUMBER fails with the bad combination error and returns nothing.
C15_SelectorLegality ==
  GotRead =>
    IF call.arg[1] \in LegalModes
    THEN err # BadCombination.err
    ELSE err = BadCombination.err /\ ret = NoRet /\ ~reached

\* A rectangular read (FIRST and LAST, with or without INCR) of an image
\* that has axes.
GotRectangle == GotRead /\ call.arg[1] \in {3, 7} /\ img # <<>>

\* a is a list of n coordinates, given as a scalar or as a vector
IsCoordList(a, n) == a.rank <= 1 /\ Len(a.v) = n

StrideOf(a, n) == IF a = Absent THEN [k \in 1..n |-> 1] ELSE a.v

RectangleAccepted(image, f, l, i) ==
  /\ IsCoordList(f, Len(image))
  /\ IsCoordList(l, Len(image))
  /\ i # Absent => IsCoordList(i, Len(image))
  /\ \A k \in 1..Len(image) :
       /\ 1 <= f.v[k] /\ f.v[k] <= l.v[k] /\ l.v[k] <= image[k]
       /\ StrideOf(i, Len(image))[k] >= 1
       /\ (l.v[k] - f.v[k] + 1) % StrideOf(i, Len(image))[k] = 0

RectangleShape(image, f, l, i) ==
  [k \in 1..Len(image) |-> (l.v[k] - f.v[k] + 1) \div StrideOf(i, Len(image))[k]]

RectangleErrors ==
  {YError("bad sub-array parameters (FIRST, LAST, INCR)"),
   YError("bad number of coordinates for keyword FIRST"),
   YError("bad number of coordinates for keyword LAST"),
   YError("bad number of coordinates for keyword INCR")}

GotRange ==
  GotRead /\ call.arg[1] = 9 /\ img # <<>> /\ call.arg[5].v[1] >= 1

\* C17 as stated: a flat read of count elements from element first is
\* accepted exactly when first >= 1 and first + count - 1 is at most the
\* number of elements of the image, whatever the values of first and count,
\* and then gives a vector of count elements; otherwise it fails and nothing
\* is read.
C17_ReadRange ==
  GotRange =>
    IF call.arg[2].v[1] >= 1
       /\ call.arg[2].v[1] + call.arg[5].v[1] - 1 <= Product(img)
    THEN err = NoErr /\ ret = ArrVal(<<call.arg[5].v[1]>>)
    ELSE err # NoErr /\ ret = NoRet /\ ~reached

GotWrite == call.op = "write_img"

\* The source array and the value of keyword NULL pass the checks made
\* before the dimensions are looked at.
WriteArgsValid ==
  /\ call.arg[1].type \in SupportedTypes
  /\ \/ call.arg[3] \in {Absent, VoidImgArg}
     \/ call.arg[3].rank = 0 /\ call.arg[3].type = call.arg[1].type

\* C18: a write without keyword FIRST is performed exactly when the source
\* array has the number of axes and the axis lengths of the image, and it
\* succeeds when the image has data; otherwise it fails with 'not same
\* dimensions' and nothing is written.
C18_WriteFull ==
  (GotWrite /\ call.arg[2] = Absent /\ WriteArgsValid) =>
    IF call.arg[1].dims = img
    THEN reached /\ err.kind # "y_error" /\ (img # <<>> => err = NoErr)
    ELSE err = YError("not same dimensions") /\ ~reached

\* A 1 x 2 array was written to a 1 x 2 image.
C18_Witness ==
  /\ GotWrite /\ call.arg[2] = Absent /\ WriteArgsValid
  /\ img = <<1, 2>>
  /\ call.arg[1].dims = img
  /\ err = NoErr
  /\ reached

\* A write with an integer FIRST: a scalar (interval) or a vector with one
\* coordinate for each axis of the image (rectangle).
GotWriteRange ==
  GotWrite /\ WriteArgsValid /\ call.arg[2].type = "Y_LONG" /\ call.arg[2].rank = 0

GotWriteRectangle ==
  /\ GotWrite /\ WriteArgsValid
  /\ call.arg[2].type = "Y_LONG" /\ call.arg[2].rank = 1
  /\ Len(call.arg[2].v) = Len(img)

SourceLength(src, k) == IF k <= Len(src.dims) THEN src.dims[k] ELSE 1

WriteErrors ==
  {YError("out of range interval"), YError("out of range subarray"),
   YError("source array has too many dimensions"),
   YError("NULL keyword forbidden when writing a rectangular subarray")}

\* C19 as stated: a write of an interval with first < 1 or
\* first + source count - 1 beyond the number of elements, a write of a
\* rectangle that leaves the image on some axis (an axis the source does not
\* have counting for one element) or whose source has more axes than the
\* image, and a write of a rectangle with a null value, are all refused and
\* nothing is written.
C19_OutOfBoundsWrite ==
  /\ (/\ GotWriteRange
      /\ \/ call.arg[2].v[1] < 1
         \/ call.arg[2].v[1] + Product(call.arg[1].dims) - 1 > Product(img))
       => err \in WriteErrors /\ ~reached
  /\ (/\ GotWriteRectangle
      /\ \/ Len(call.arg[1].dims) > Len(img)
         \/ \E k \in 1..Len(img) :
              \/ call.arg[2].v[k] < 1
              \/ call.arg[2].v[k] + SourceLength(call.arg[1], k) - 1 > img[k]
         \/ HasNull(call.arg[3]))
       => err \in WriteErrors /\ ~reached

(* ================================================================== *)
(* Properties of the search of a column by a template.                 *)
(* ================================================================== *)
\* get_colnum or get_colname was applied with a template that is a text
\* and not a column number.
GotColumn ==
  /\ call.op \in {"get_colnum", "get_colname"}
  /\ call.arg[1] \notin {<<>>, NullString}
  /\ ~IsDigitStr(call.arg[1])

\* The numbers of the columns whose name matches the template, in the order
\* of the table.
Matching ==
  SelectSeq([k \in 1..Len(cols) |-> k],
            LAMBDA k : ffcmps(call.arg[1], cols[k], call.arg[2]).match)

\* What the built-in gives for the column numbers m.
Resolved(m) ==
  IF call.op = "get_colnum"
  THEN (IF Len(m) = 1 THEN LongVal(m[1]) ELSE ArrVal(m))
  ELSE (IF Len(m) = 1 THEN StrVal(cols[m[1]])
        ELSE ArrVal([i \in 1..Len(m) |-> cols[m[i]]]))

ResolvesMatching ==
  GotColumn =>
    /\ err = NoErr
    /\ ret = IF Matching = <<>> THEN Nil ELSE Resolved(Matching)

FluxTable == <<<<"F", "L", "U", "X">>, <<"F", "L", "U", "X", "_", "E", "R", "R">>>>

\* C20 as stated: one matching column gives its number or name, no matching
\* column gives nil without an error, several matching columns give all of
\* them in the order of the table; the columns FLUX and FLUX_ERR searched
\* with the template FLUX, letter case ignored, give the numbers 1 and 2.
C20_ResolveColumn ==
  /\ ResolvesMatching
  /\ (/\ call.op = "get_colnum"
      /\ cols = FluxTable
      /\ call.arg = <<<<"F", "L", "U", "X">>, FALSE>>)
       => ret = ArrVal(<<1, 2>>)

\* C20 amended: one matching column gives its number or name, no matching
\* column gives nil without an error, several matching columns give all of
\* them in the order of the table; the columns FLUX and FLUX_ERR searched
\* with the template FLUX*, letter case ignored, give the numbers 1 and 2,
\* and searched with the template FLUX give the number 1.
C20_ResolveColumnByWildCard ==
  /\ ResolvesMatching
  /\ (/\ call.op = "get_colnum"
      /\ cols = FluxTable
      /\ call.arg = <<<<"F", "L", "U", "X", "*">>, FALSE>>)
       => ret = ArrVal(<<1, 2>>)
  /\ (/\ call.op = "get_colnum"
      /\ cols = FluxTable
      /\ call.arg = <<<<"F", "L", "U", "X">>, FALSE>>)
       => ret = LongVal(1)

\* FLUX and FLUX_ERR searched with FLUX* gave the numbers 1 and 2.
C20_Witness ==
  /\ call.op = "get_colnum"
  /\ cols = FluxTable
  /\ call.arg = <<<<"F", "L", "U", "X", "*">>, FALSE>>
  /\ err = NoErr
  /\ ret = ArrVal(<<1, 2>>)

(* ------------------------------------------------------------------ *)
(* The number of elements of an image.                                 *)
(* ------------------------------------------------------------------ *)
\* a write of the whole array (no FIRST, or a void one)
GotWriteFull ==
  GotWrite /\ WriteArgsValid /\ first_case(call.arg[2]) = 0

\* C26 as stated: an image with no axis counts 0 elements, so that a write
\* of an interval of elements or of a whole array to such an image is never
\* accepted: it fails and the library is not asked to write.
C26_ZeroAxisCount ==
  (img = <<>> /\ (GotWriteFull \/ GotWriteRange))
    => err # NoErr /\ ~reached

\* C27 as stated: on an image whose number of elements does not fit in a
\* long, a read or a write fails with the error of get_image_param and
\* nothing is read or written with a wrapped count.
C27_CountOverflow ==
  (ProductOverflows(img) /\ (GotRead \/ GotWrite))
    => err.kind = "y_error" /\ ret = NoRet /\ ~reached

(* ------------------------------------------------------------------ *)
(* Reads and writes of columns.                                        *)
(* ------------------------------------------------------------------ *)
GotReadCol == call.op = "read_col"

\* the rows asked for: the first row is 1 and the last row the last one of
\* the table when they are not given
FirstRowAsked == IF call.arg[1] < 3 THEN 1 ELSE call.arg[2]
LastRowAsked == IF call.arg[1] < 4 THEN data.nrows ELSE call.arg[3]

\* The shape of a cell of the column: TDIM, less the leading axis (the
\* width in characters) for strings, and no axis for a single axis of
\* length 1.
CellShape ==
  IF data.coltype = "TSTRING" THEN Tail(data.tdim)
  ELSE IF data.tdim = <<1>> THEN <<>>
  ELSE data.tdim

\* A column of fixed size and of a type that can be read, whose cells have
\* a shape that a result with one more axis can hold.
Readable ==
  /\ ~data.varlen
  /\ data.coltype # "TULONGLONG"
  /\ data.coltype = "TSTRING" => data.tdim[1] = data.width
  /\ Len(CellShape) < Y_DIMSIZE - 1

\* C21: a read of the rows firstRow to lastRow of a readable column, firstRow
\* being 1 and lastRow the number of rows when not given, is performed
\* exactly when 1 <= firstRow <= lastRow <= number of rows, and then reads
\* all the rows asked for; any other range, a table without rows included,
\* fails with 'invalid range of rows' and nothing is read.
C21_RowRange ==
  (GotReadCol /\ Readable) =>
    IF 1 <= FirstRowAsked /\ FirstRowAsked <= LastRowAsked
       /\ LastRowAsked <= data.nrows
    THEN /\ reached
         /\ rd.number = Product(CellShape) * (LastRowAsked - FirstRowAsked + 1)
    ELSE err = YError("invalid range of rows") /\ ret = NoRet /\ ~reached

\* Rows 1 to 3 were asked of a table of 2 rows, and the call was refused.
C21_Witness ==
  /\ GotReadCol /\ Readable
  /\ data.nrows = 2
  /\ call.arg[1] = 4 /\ call.arg[2] = 1 /\ call.arg[3] = 3
  /\ err = YError("invalid range of rows")
  /\ ~reached

\* C22: the array a read of a column gives has the dimensions of a cell (a
\* single axis of length 1 counting for none, the leading axis of a column
\* of strings being dropped), followed by the number of rows exactly when
\* more than one row is asked for, and the number of elements read is the
\* product of these dimensions.
C22_ResultShape ==
  (GotReadCol /\ err = NoErr) =>
    /\ ret = ArrVal(IF LastRowAsked > FirstRowAsked
                    THEN CellShape \o <<LastRowAsked - FirstRowAsked + 1>>
                    ELSE CellShape)
    /\ reached
    /\ rd.number = Product(ret.v)

\* One row of a column of 2 x 3 cells was read as a 2 x 3 array, with no
\* axis for the rows.
C22_Witness ==
  /\ GotReadCol /\ err = NoErr
  /\ data.coltype = "TDOUBLE" /\ data.tdim = <<2, 3>>
  /\ call.arg[1] = 4 /\ call.arg[2] = 2 /\ call.arg[3] = 2
  /\ ret = ArrVal(<<2, 3>>)
  /\ rd.number = 6

GotWriteCol == call.op = "write_col"

\* The dimensions of the data do not fit the cells: the number of
\* dimensions is neither that of a cell nor one more, or a leading dimension
\* is not that of the cell.
ShapeMismatch(dims, cell) ==
  \/ Len(dims) \notin {Len(cell), Len(cell) + 1}
  \/ \E k \in 1..Len(cell) : k <= Len(dims) /\ dims[k] # cell[k]

\* C23: a write to a column of data whose leading dimensions are not those
\* of a cell, or whose number of dimensions is neither that of a cell nor
\* one more, fails with an error of the wrapper whatever the type of the
\* data, and nothing is written.
C23_WriteShape ==
  (GotWriteCol /\ ShapeMismatch(call.arg[1].dims, CellShape)) =>
    err.kind = "y_error" /\ ret = NoRet /\ ~reached

\* A 3 x 2 array of integers was refused for a column of 2 x 3 cells.
C23_Witness ==
  /\ GotWriteCol
  /\ data.coltype = "TLONG" /\ data.tdim = <<2, 3>> /\ ~data.varlen
  /\ call.arg[1] = SrcArr("Y_LONG", <<3, 2>>)
  /\ call.arg[3] = Absent
  /\ err = YError("non matching dimension(s)")
  /\ ~reached

(* ------------------------------------------------------------------ *)
(* The type of the arrays read and the null value.                     *)
(* ------------------------------------------------------------------ *)
\* The kind of the elements of the data: 8-bit unsigned, 8-, 16-, 32- or
\* 64-bit signed, 16-, 32- or 64-bit unsigned integers, 32- or 64-bit
\* reals; "other" for bits, logical values, strings and complex numbers.
ElementKind ==
  IF data.kind = "image"
  THEN CASE data.bitpix = "BYTE_IMG" -> "u8"
         [] data.bitpix = "SBYTE_IMG" -> "s8"
         [] data.bitpix = "SHORT_IMG" -> "s16"
         [] data.bitpix = "USHORT_IMG" -> "u16"
         [] data.bitpix = "LONG_IMG" -> "s32"
         [] data.bitpix = "ULONG_IMG" -> "u32"
         [] data.bitpix = "LONGLONG_IMG" -> "s64"
         [] data.bitpix = "ULONGLONG_IMG" -> "u64"
         [] data.bitpix = "FLOAT_IMG" -> "f32"
         [] data.bitpix = "DOUBLE_IMG" -> "f64"
  ELSE CASE data.coltype = "TBYTE" -> "u8"
         [] data.coltype = "TSBYTE" -> "s8"
         [] data.coltype = "TSHORT" -> "s16"
         [] data.coltype = "TUSHORT" -> "u16"
         [] data.coltype \in {"TINT", "TLONG"} -> "s32"
         [] data.coltype \in {"TUINT", "TULONG"} -> "u32"
         [] data.coltype = "TLONGLONG" -> "s64"
         [] data.coltype = "TULONGLONG" -> "u64"
         [] data.coltype = "TFLOAT" -> "f32"
         [] data.coltype = "TDOUBLE" -> "f64"
         [] OTHER -> "other"

\* The type the promotion table gives for a kind of elements: integers of
\* 8, 16, 32 or 64 bits, reals of 32 or 64 bits; "none" when the build has
\* no type wide enough (its widest integer is the long).
Promoted(kind, sl) ==
  CASE kind = "u8" -> "i8"
    [] kind \in {"s8", "s16"} -> "i16"
    [] kind \in {"u16", "s32"} -> "i32"
    [] kind \in {"u32", "s64"} -> IF sl = 8 THEN "i64" ELSE "none"
    [] kind = "u64" -> "none"
    [] kind = "f32" -> "f32"
    [] kind = "f64" -> "f64"

\* what the elements of an array of the interpreter are
Elements(type, sl) ==
  CASE type = "Y_CHAR" -> "i8"
    [] type = "Y_SHORT" -> "i16"
    [] type = "Y_INT" -> "i32"
    [] type = "Y_LONG" -> IF sl = 8 THEN "i64" ELSE "i32"
    [] type = "Y_FLOAT" -> "f32"
    [] type = "Y_DOUBLE" -> "f64"
    [] OTHER -> "other"

\* a call that went as far as the choice of the type of the array
TypeChosen ==
  \/ /\ GotRead
     /\ \/ reached
        \/ err = YError("unsupported data type")
  \/ /\ GotReadCol
     /\ ElementKind # "other"
     /\ \/ reached
        \/ err = YError("unsupported array type")

\* C28 as stated: a read of an image and a read of a column give 8-bit
\* unsigned data as 8-bit elements, 8- and 16-bit signed data as 16-bit
\* signed ones, 16-bit unsigned and 32-bit signed data as 32-bit signed
\* ones, 32-bit unsigned and 64-bit signed data as 64-bit signed ones,
\* 32-bit reals as float and 64-bit reals as double;
\* data for which no type is wide enough are refused as unsupported and
\* nothing is read.
C28_TypePromotion ==
  TypeChosen =>
    IF Promoted(ElementKind, data.sizeof_long) = "none"
    THEN err.kind = "y_error" /\ ~reached
    ELSE /\ reached
         /\ rd # NoRead =>
              Elements(rd.eltype, data.sizeof_long)
                = Promoted(ElementKind, data.sizeof_long)

\* a read that the library made
ReadDone == (GotRead \/ GotReadCol) /\ reached /\ rd # NoRead

\* C29 as stated: after a read with keyword NULL, the variable holds nil
\* exactly when no null element was met and otherwise a scalar holding the
\* null value; the tag of every null value a read can produce is handled, so
\* that a read that succeeded does not fail afterwards.
C29_NullReport ==
  ReadDone =>
    /\ err = NoErr
    /\ call.arg[Len(call.arg)] =>
         /\ nullv = Nil <=> ~rd.anynull
         /\ rd.anynull => nullv.t = "scalar"

(* ------------------------------------------------------------------ *)
(* Writes that are refused.                                            *)
(* ------------------------------------------------------------------ *)
\* C30: a write to an image or to a column that the wrapper refuses (a
\* variable-size column, data of a wrong shape or rank, an interval or a
\* rectangle outside the image, a null value with a rectangle, a null value
\* that is not a scalar of the type of the data, data of an unsupported
\* type) is refused before any write call to the library: nothing is
\* written and the current HDU is the same.
C30_NoPartialWrite ==
  ((GotWrite \/ GotWriteCol) /\ err.kind = "y_error") =>
    /\ ~reached
    /\ ret = NoRet
    /\ curhdu[1] = 1

\* A write to a column of variable size was refused and nothing was
\* written.
C30_Witness ==
  /\ GotWriteCol
  /\ data.varlen
  /\ call.arg[1] = SrcArr("Y_LONG", <<2>>)
  /\ call.arg[3] = Absent
  /\ err = YError("writing variable size arrays not yet implemented")
  /\ ~reached

(* ------------------------------------------------------------------ *)
(* The number of columns of a new table.                               *)
(* ------------------------------------------------------------------ *)
GotCreate == call.op = "create_tbl"

\* The arrays of names, formats and units of the call: the first two
\* positional arguments and the values of keyword TUNIT.
SuppliedArrays ==
  SelectSeq(call.arg, LAMBDA a : a.k \in {"pos", "tunit"})

\* The call has at most two positional arguments after the handle, no
\* unknown keyword, and each of its arrays has at most one dimension.
WellFormed ==
  /\ Len(SelectSeq(call.arg, LAMBDA a : a.k = "pos")) <= 2
  /\ \A i \in 1..Len(call.arg) : call.arg[i].k # "other" /\ call.arg[i].rank <= 1

Longest == CHOOSE n \in 0..MaxCols :
  /\ \A i \in 1..Len(SuppliedArrays) : SuppliedArrays[i].n <= n
  /\ n = 0 \/ \E i \in 1..Len(SuppliedArrays) : SuppliedArrays[i].n = n

\* C24 as stated: a table is created with as many columns as the longest of
\* the arrays of names, formats and units has elements, and a call in which
\* two of these arrays have different lengths fails with 'number of columns
\* mismatch' before any table is created.
C24_ColumnCount ==
  (GotCreate /\ WellFormed) =>
    /\ reached => Len(cols) = Longest
    /\ (\E i, j \in 1..Len(SuppliedArrays) : SuppliedArrays[i].n # SuppliedArrays[j].n) =>
         err = YError("number of columns mismatch") /\ ~reached

(* ------------------------------------------------------------------ *)
(* Encoded checksums.                                                  *)
(* ------------------------------------------------------------------ *)
GotEncode == call.op = "encode_chksum" /\ err = NoErr

GotDecode == call.op = "decode_chksum" /\ call.arg[3] \in {1, 2}

\* C25: the encoding of an unsigned 32-bit sum has exactly 16 characters;
\* decoding it with the same complement flag gives the sum back; and the
\* decoding of a text whose length is not 16, or of the null string, is
\* refused.
C25_ChecksumRoundTrip ==
  /\ [](GotEncode => ret.t = "string" /\ Len(ret.v) = 16)
  /\ []((GotDecode /\ (call.arg[4] \/ Len(call.arg[1]) # 16)) =>
          /\ err = YError("length of checksum string should be exactly 16 characters")
          /\ ret = NoRet)
  /\ [][(/\ GotEncode
          /\ call'.op = "decode_chksum"
          /\ call'.arg = <<ret.v, call.arg[2], call.arg[3], FALSE>>)
           => err' = NoErr /\ ret' = LongVal(call.arg[1])]_vars

\* The complemented encoding of the sum 0x28AC81FF was decoded to that sum.
C25_Witness ==
  /\ call.op = "decode_chksum"
  /\ call.arg[2]
  /\ Len(call.arg[1]) = 16
  /\ err = NoErr
  /\ ret = LongVal(<<40, 172, 129, 255>>)

====
